---- MODULE Spec2Model ----
(***************************************************************************)
(* lark-sync: bidirectional sync between local Markdown files and Lark     *)
(* cloud documents.  The module models                                     *)
(*   - the sync state store (sync/state.py),                               *)
(*   - change detection and conflict classification (sync/differ.py,       *)
(*     sync/conflict.py),                                                  *)
(*   - the engine's push, pull and status operations (sync/engine.py),     *)
(*     with project-local state detection, and init_project_sync           *)
(*     (tools/sync_tools.py),                                              *)
(*   - table materialization (SyncEngine._create_table_block) and the      *)
(*     materialization of nested blocks,                                   *)
(*   - the converters between Markdown and Lark blocks (converter/),       *)
(*   - a push over an existing document, a push racing a local edit, and   *)
(*     the per-document write rate limiter (lark_client/blocks.py).        *)
(*                                                                         *)
(* The file system holds one Markdown file name, a.md, in two directories: *)
(* /proj (a Git repository, which may hold .lark-sync.json) and /home (no  *)
(* repository).  A caller names a file by an absolute path or by the       *)
(* relative path a.md, which the OS resolves against the process's working *)
(* directory.  The remote store holds documents with a revision and a body;*)
(* every remote call may fail (network/API error), and a call on a         *)
(* document that does not exist always fails.                              *)
(***************************************************************************)
EXTENDS Integers, Sequences, FiniteSets, TLC

(***************************************************************************)
(* Bounds of the model.                                                    *)
(***************************************************************************)
\* Highest remote revision explored by the sync state machine.
MaxRev == 3
\* Highest stored/current revision drawn for the classification probe.
MaxProbeRev == 7
\* Largest local table explored by the table materialization.
MaxRows == 12
MaxCols == 3
\* Emptiness patterns of a table's cells: cell i is empty iff i % m = k.
MaxPeriod == 3

(***************************************************************************)
(* The universe: paths, documents, contents.                               *)
(***************************************************************************)
ProjectRoot == "/proj"
HomeDir == "/home"
Dirs == {ProjectRoot, HomeDir}
ProjFile == "/proj/a.md"
HomeFile == "/home/a.md"
AbsPaths == {ProjFile, HomeFile}
RelPath == "a.md"
PathStrs == AbsPaths \cup {RelPath}
NoPath == "<no path>"
NoRoot == "<no root>"
Docs == {"d1"}
NoDoc == "<no doc>"
\* File contents: an empty document as rendered, one paragraph with LF and
\* the same paragraph with CRLF line endings.
Contents == {"\n", "x\n", "x\r\n"}
Missing == "<missing>"
\* Remote bodies: the block tree under the page block.
Bodies == {"empty", "x"}
StoreIds == {"global", "project"}
NoHash == <<>>

VARIABLES
    cwd,      \* the process's working directory
    files,    \* AbsPaths -> Contents or Missing
    remote,   \* Docs -> [exists, revision_id, body]
    stores,   \* StoreIds -> state manager: [root, exists, cached, loaded, mem, disk]
    last,     \* the last operation: its arguments, its result, facts of its pre-state
    streak,   \* successful pushes of one path in a row, nothing else in between
    probe,    \* the classification probe: inputs and result of one detect call
    tbl,      \* the table materialization: inputs, remote calls issued, outcome
    mat,      \* the block materialization: local block list, remote calls, outcome
    sm,       \* one state manager under direct add/update/remove calls
    conv,     \* the converters: input and output of one conversion
    job,      \* a push in flight: what it read and sent before its state update
    lim       \* one document's write rate limiter, its callers and the clock

vars == <<cwd, files, remote, stores, last, streak, probe, tbl, mat, sm, conv,
          job, lim>>

\* What an idle component holds.
Idle == [op |-> "idle"]

(***************************************************************************)
(* Paths (pathlib as used by state.py and engine.py).                      *)
(***************************************************************************)
IsAbsolute(p) == p \in AbsPaths

Join(dir, rel) == IF dir = ProjectRoot THEN ProjFile ELSE HomeFile

ParentDir(abs) == IF abs = ProjFile THEN ProjectRoot ELSE HomeDir

\* Path(p) as the OS opens it: a relative path is taken from the cwd.
OsPath(p) == IF IsAbsolute(p) THEN p ELSE Join(cwd, p)

\* SyncEngine._find_git_root: /proj is a repository, /home is not.
find_git_root(p) ==
    IF ParentDir(OsPath(p)) = ProjectRoot THEN ProjectRoot ELSE NoRoot

\* SyncStateManager._normalize_path
normalize_path(root, p) ==
    IF root = NoRoot THEN p
    ELSE IF IsAbsolute(p)
         THEN (IF ParentDir(p) = root THEN RelPath ELSE p)
         ELSE p

\* SyncStateManager.resolve_path
resolve_path(root, p) ==
    IF root = NoRoot THEN p
    ELSE IF ~IsAbsolute(p) THEN Join(root, p) ELSE p

(***************************************************************************)
(* Content hash (state.py compute_file_hash).  Line endings are normalized *)
(* to \n; SHA-256 is taken as injective on the normalized content.         *)
(***************************************************************************)
NormalizeEol(c) == IF c = "x\r\n" THEN "x\n" ELSE c

compute_content_hash(c) == <<"sha256", NormalizeEol(c)>>

compute_file_hash(p) == compute_content_hash(files[OsPath(p)])

(***************************************************************************)
(* The state manager (state.py SyncStateManager).  mem is _state (the      *)
(* mappings, in order) once loaded; disk is the state file's mappings.     *)
(***************************************************************************)
Mapping(path, doc, hash, rev) ==
    [local_path |-> path, lark_document_id |-> doc,
     local_hash_at_sync |-> hash, remote_revision_at_sync |-> rev]

\* SyncStateManager.load
load(s) ==
    [s EXCEPT !.loaded = TRUE, !.mem = IF s.exists THEN s.disk ELSE <<>>]

\* SyncStateManager.save
save(s, state) ==
    [s EXCEPT !.loaded = TRUE, !.mem = state, !.disk = state, !.exists = TRUE]

\* SyncStateManager._ensure_loaded
ensure_loaded(s) == IF s.loaded THEN s ELSE load(s)

\* Index of the first mapping of seq whose field f equals v, 0 if none.
FirstIndex(seq, f, v) ==
    LET I == {i \in 1..Len(seq) : seq[i][f] = v}
    IN IF I = {} THEN 0 ELSE CHOOSE i \in I : \A j \in I : i <= j

\* SyncStateManager.get_mapping: the index in the loaded state, 0 if absent.
get_mapping(s, p) ==
    FirstIndex(ensure_loaded(s).mem, "local_path", normalize_path(s.root, p))

\* SyncStateManager.get_mapping_by_doc_id
get_mapping_by_doc_id(s, d) ==
    FirstIndex(ensure_loaded(s).mem, "lark_document_id", d)

\* An add_mapping that keeps the entries already stored for the key.
add_mapping_keeping(s, m) ==
    LET st == IF s.loaded THEN s
              ELSE [s EXCEPT !.loaded = TRUE,
                             !.mem = IF s.exists THEN s.disk ELSE <<>>]
        normalized == normalize_path(s.root, m.local_path)
    IN [st EXCEPT !.mem = Append(st.mem, [m EXCEPT !.local_path = normalized]),
                  !.disk = Append(st.mem, [m EXCEPT !.local_path = normalized]),
                  !.exists = TRUE]

\* SyncStateManager.add_mapping
add_mapping(s, m) ==
    LET st == ensure_loaded(s)
        normalized == normalize_path(s.root, m.local_path)
        kept == SelectSeq(st.mem, LAMBDA x : x.local_path # normalized)
    IN save(st, Append(kept, [m EXCEPT !.local_path = normalized]))

\* setattr of the named fields
Merge(m, updates) ==
    [f \in DOMAIN m |-> IF f \in DOMAIN updates THEN updates[f] ELSE m[f]]

\* SyncStateManager.update_mapping: [ok, store]; ok = FALSE is the KeyError.
update_mapping(s, p, updates) ==
    LET st == ensure_loaded(s)
        i == FirstIndex(st.mem, "local_path", normalize_path(s.root, p))
    IN IF i = 0 THEN [ok |-> FALSE, store |-> st]
       ELSE [ok |-> TRUE,
             store |-> save(st, [st.mem EXCEPT ![i] = Merge(st.mem[i], updates)])]

\* SyncStateManager.remove_mapping
remove_mapping(s, p) ==
    LET st == ensure_loaded(s)
        lookup == normalize_path(s.root, p)
    IN save(st, SelectSeq(st.mem, LAMBDA x : x.local_path # lookup))

(***************************************************************************)
(* Change detection (differ.py) and classification (conflict.py).          *)
(***************************************************************************)
\* SyncDiffer.has_local_changes
has_local_changes(m) ==
    IF files[OsPath(m.local_path)] = Missing THEN FALSE
    ELSE IF m.local_hash_at_sync = NoHash THEN TRUE
    ELSE compute_file_hash(m.local_path) # m.local_hash_at_sync

\* has_remote_changes with the comparison slipped to >=: an unchanged
\* revision counts as a remote change.
has_remote_changes_geq(m, current_revision) ==
    IF m.remote_revision_at_sync = 0 THEN TRUE
    ELSE current_revision >= m.remote_revision_at_sync

\* SyncDiffer.has_remote_changes
has_remote_changes(m, current_revision) ==
    IF m.remote_revision_at_sync = 0 THEN TRUE
    ELSE current_revision > m.remote_revision_at_sync

\* detect with the two one-sided results exchanged.
detect_swapped(m, current_revision) ==
    LET local_changed == has_local_changes(m)
        remote_changed == has_remote_changes(m, current_revision)
    IN IF local_changed /\ remote_changed THEN "both_changed"
       ELSE IF local_changed THEN "remote_only"
       ELSE IF remote_changed THEN "local_only"
       ELSE "none"

\* ConflictDetector.detect
detect(m, current_revision) ==
    LET local_changed == has_local_changes(m)
        remote_changed == has_remote_changes(m, current_revision)
    IN IF local_changed /\ remote_changed THEN "both_changed"
       ELSE IF local_changed THEN "local_only"
       ELSE IF remote_changed THEN "remote_only"
       ELSE "none"

\* A conflict check that stops the operation on any change, one-sided or not.
aborts_on_any_change(conflict) == conflict # "none"

\* Lines 196 and 338: the only classification that stops a push or a pull.
aborts(conflict) == conflict = "both_changed"

(***************************************************************************)
(* The remote store as the engine's client sees it (lark_client).  A call  *)
(* sequence is threaded through a record [ok, remote, calls]: ok = FALSE   *)
(* once a call has raised, calls the calls issued so far, in order.  Each  *)
(* successful content change increments the document's revision.           *)
(***************************************************************************)
ReadCalls == {"documents.get", "list_all_blocks"}
WriteCalls == {"batch_delete", "create_children", "documents.create"}

Start(r, calls) == [ok |-> TRUE, remote |-> r, calls |-> calls]

\* One client call on document d: it raises when the document does not exist
\* or when the call fails; otherwise the remote store becomes effect.
Call(st, d, name, failed, effect) ==
    IF ~st.ok THEN st
    ELSE IF failed \/ ~st.remote[d].exists
         THEN [ok |-> FALSE, remote |-> st.remote, calls |-> Append(st.calls, name)]
         ELSE [ok |-> TRUE, remote |-> effect, calls |-> Append(st.calls, name)]

SetBody(r, d, body) ==
    [r EXCEPT ![d] = [exists |-> TRUE, revision_id |-> r[d].revision_id + 1,
                      body |-> body]]

FreeDocs(r) == {d \in Docs : ~r[d].exists}

\* The id the remote store gives the next created document.
NewDocId(r) == "d1"

\* MarkdownToLarkConverter.convert: the block list of the Markdown content
\* (line endings do not matter to the tokenizer).
to_lark(content) == IF NormalizeEol(content) = "\n" THEN "empty" ELSE "x"

\* LarkToMarkdownConverter.convert: rendered lines joined, stripped, plus \n.
to_md(body) == IF body = "empty" THEN "\n" ELSE "x\n"

\* SyncEngine._clear_document_blocks
clear_document_blocks(st, d, failAt) ==
    LET listed == Call(st, d, "list_all_blocks", failAt = "list", st.remote)
    IN IF listed.ok /\ listed.remote[d].body # "empty"
       THEN Call(listed, d, "batch_delete", failAt = "delete",
                 SetBody(listed.remote, d, "empty"))
       ELSE listed

\* SyncEngine._create_blocks_with_nesting, on the flat block list of a body
create_blocks_with_nesting(st, d, lark_blocks, failAt) ==
    IF st.ok /\ lark_blocks # "empty"
    THEN Call(st, d, "create_children", failAt = "create",
              SetBody(st.remote, d, lark_blocks))
    ELSE st

\* DocumentsClient.create: a new, empty document at revision 1
documents_create(st, failAt) ==
    IF ~st.ok THEN st
    ELSE IF failAt = "create_document"
         THEN [ok |-> FALSE, remote |-> st.remote,
               calls |-> Append(st.calls, "documents.create")]
         ELSE [ok |-> TRUE,
               remote |-> [st.remote EXCEPT ![NewDocId(st.remote)] =
                              [exists |-> TRUE, revision_id |-> 1, body |-> "empty"]],
               calls |-> Append(st.calls, "documents.create")]

(***************************************************************************)
(* Project-local state detection (engine.py).                              *)
(***************************************************************************)
\* SyncEngine._get_state_manager: the store that serves local_path
get_state_manager(st, local_path) ==
    IF find_git_root(local_path) = NoRoot THEN "global"
    ELSE IF ~st["project"].exists THEN "global"
    ELSE "project"

\* ... and its effect on the cache of project state managers
cache_manager(st, sid) == [st EXCEPT ![sid].cached = TRUE]

(***************************************************************************)
(* Push (SyncEngine.sync_to_lark).  The result record holds what the call  *)
(* returns (res = "ok" | "fail": a SyncResult; "raise": an exception left  *)
(* the method), the remote calls it issued and the state it leaves.        *)
(***************************************************************************)
FailPoints == {"none", "list", "delete", "create", "get", "create_document"}

NoMapping == Mapping(NoPath, NoDoc, NoHash, 0)

\* had: a mapping was found, mapping: that mapping (NoMapping if none),
\* fetched: how the metadata fetch of the conflict check ended.
Outcome(res, conflict, calls, r, st, f, doc, sid, mapping, fetched) ==
    [res |-> res, conflict |-> conflict, calls |-> calls, remote |-> r,
     stores |-> st, files |-> f, document_id |-> doc, store |-> sid,
     had |-> mapping # NoMapping, mapping |-> mapping, fetched |-> fetched]

\* Lines 236-261: the mapping is updated or added after every remote call.
push_update_state(st, sid, idx, local_path, doc, new_revision) ==
    LET current_hash == compute_file_hash(local_path)
    IN IF idx > 0
       THEN [st EXCEPT ![sid] =
                update_mapping(@, local_path,
                    [lark_document_id |-> doc,
                     local_hash_at_sync |-> current_hash,
                     remote_revision_at_sync |-> new_revision]).store]
       ELSE [st EXCEPT ![sid] =
                add_mapping(@, Mapping(local_path, doc, current_hash,
                                       new_revision))]

\* The state update made as soon as the blocks are written, before the
\* revision refresh has returned.
push_state_eager(refreshed, st, sid, idx, local_path, doc) ==
    push_update_state(st, sid, idx, local_path, doc,
                      refreshed.remote[doc].revision_id)

\* Lines 216-261: the state update is reached only when every remote call
\* of the push, the revision refresh included, has returned.
push_state_after(refreshed, st, sid, idx, local_path, doc) ==
    IF refreshed.ok
    THEN push_update_state(st, sid, idx, local_path, doc,
                           refreshed.remote[doc].revision_id)
    ELSE st

\* Lines 190-208: the conflict check's metadata fetch; an exception is
\* caught and logged, and the push goes on.
push_conflict_check(checked, doc, net) ==
    IF checked
    THEN Call(Start(remote, <<>>), doc, "documents.get", ~net.check, remote)
    ELSE Start(remote, <<>>)

sync_to_lark(local_path, document_id, force, net) ==
    IF files[OsPath(local_path)] = Missing
    THEN Outcome("fail", "none", <<>>, remote, stores, files, document_id,
                 "global", NoMapping, "skipped")
    ELSE
    LET markdown_content == files[OsPath(local_path)]
        sid == get_state_manager(stores, local_path)
        st1 == [cache_manager(stores, sid) EXCEPT ![sid] = ensure_loaded(@)]
        idx == get_mapping(st1[sid], local_path)
        mapping == IF idx > 0 THEN st1[sid].mem[idx] ELSE NoMapping
        doc == IF document_id = NoDoc /\ idx > 0
               THEN mapping.lark_document_id ELSE document_id
        checked == ~force /\ idx > 0 /\ doc # NoDoc
        check == push_conflict_check(checked, doc, net)
        fetched == IF ~checked THEN "skipped"
                   ELSE IF check.ok THEN "ok" ELSE "failed"
        conflict == IF checked /\ check.ok
                    THEN detect(mapping, remote[doc].revision_id) ELSE "none"
    IN IF aborts(conflict)
       THEN Outcome("fail", conflict, check.calls, remote, st1, files, doc,
                    sid, mapping, fetched)
       ELSE
       LET lark_blocks == to_lark(markdown_content)
           begin == Start(remote, check.calls)
           target == IF doc # NoDoc THEN doc ELSE NewDocId(remote)
           written ==
               IF doc # NoDoc
               THEN create_blocks_with_nesting(
                        clear_document_blocks(begin, doc, net.failAt),
                        doc, lark_blocks, net.failAt)
               ELSE create_blocks_with_nesting(
                        documents_create(begin, net.failAt),
                        target, lark_blocks, net.failAt)
           refreshed == Call(written, target, "documents.get",
                             net.failAt = "get", written.remote)
       IN Outcome(IF refreshed.ok THEN "ok" ELSE "raise", "none",
                  refreshed.calls, refreshed.remote,
                  push_state_after(refreshed, st1, sid, idx, local_path, target),
                  files, target, sid, mapping, fetched)

(***************************************************************************)
(* Pull (SyncEngine.sync_from_lark).                                       *)
(***************************************************************************)
\* SyncEngine._find_mapping_by_doc_id: the global state first, then the
\* cached project states; [sid, idx, stores] with idx = 0 if none is found.
find_mapping_by_doc_id(st, d) ==
    LET g == [st EXCEPT !["global"] = ensure_loaded(@)]
        gi == get_mapping_by_doc_id(g["global"], d)
        pr == [g EXCEPT !["project"] = ensure_loaded(@)]
        pi == get_mapping_by_doc_id(pr["project"], d)
    IN IF gi > 0 THEN [sid |-> "global", idx |-> gi, stores |-> g]
       ELSE IF ~st["project"].cached THEN [sid |-> "global", idx |-> 0, stores |-> g]
       ELSE IF pi > 0 THEN [sid |-> "project", idx |-> pi, stores |-> pr]
       ELSE [sid |-> "global", idx |-> 0, stores |-> pr]

\* The file name derived from the remote title (every document is titled A).
derived_path == RelPath

\* Lines 375-400: the mapping is updated on the store that owns it, or a
\* new one is added to the store that serves the written path.
pull_update_state(st, sid, mapping, f, local_path, doc, current_revision) ==
    LET current_hash == compute_content_hash(f[OsPath(local_path)])
        owner == get_state_manager(st, local_path)
    IN IF mapping # NoMapping
       THEN [st EXCEPT ![sid] =
                update_mapping(@, mapping.local_path,
                    [local_hash_at_sync |-> current_hash,
                     remote_revision_at_sync |-> current_revision]).store]
       ELSE [cache_manager(st, owner) EXCEPT ![owner] =
                add_mapping(@, Mapping(local_path, doc, current_hash,
                                       current_revision))]

sync_from_lark(document_id, path_arg, force, net) ==
    LET found == find_mapping_by_doc_id(stores, document_id)
        st1 == found.stores
        sid == found.sid
        mapping == IF found.idx > 0 THEN st1[sid].mem[found.idx] ELSE NoMapping
        from_mapping ==
            IF st1[sid].root # NoRoot /\ ~IsAbsolute(mapping.local_path)
            THEN resolve_path(st1[sid].root, mapping.local_path)
            ELSE mapping.local_path
        path1 == IF path_arg = NoPath /\ mapping # NoMapping
                 THEN from_mapping ELSE path_arg
        got == Call(Start(remote, <<>>), document_id, "documents.get",
                    ~net.get, remote)
    IN IF ~got.ok
       THEN Outcome("fail", "none", got.calls, remote, st1, files, document_id,
                    sid, mapping, "failed")
       ELSE
       LET current_revision == remote[document_id].revision_id
           local_path == IF path1 = NoPath THEN derived_path ELSE path1
           checked == ~force /\ mapping # NoMapping
           conflict == IF checked THEN detect(mapping, current_revision)
                       ELSE "none"
           listed == Call(got, document_id, "list_all_blocks", ~net.list, remote)
       IN IF aborts(conflict)
          THEN Outcome("fail", conflict, got.calls, remote, st1, files,
                       document_id, sid, mapping, "ok")
          ELSE IF ~listed.ok
          THEN Outcome("fail", "none", listed.calls, remote, st1, files,
                       document_id, sid, mapping, "ok")
          ELSE IF remote[document_id].body = "empty" /\ net.null_children
          THEN \* _root_children returns None for a page block whose children
               \* field is null: iterating it raises TypeError
               Outcome("raise", "none", listed.calls, remote, st1, files,
                       document_id, sid, mapping, "ok")
          ELSE
          LET markdown_content == to_md(remote[document_id].body)
              written == [files EXCEPT ![OsPath(local_path)] = markdown_content]
          IN Outcome("ok", "none", listed.calls, remote,
                     pull_update_state(st1, sid, mapping, written, local_path,
                                       document_id, current_revision),
                     written, document_id, sid, mapping, "ok")

(***************************************************************************)
(* Status (SyncEngine.get_sync_status, _compute_status).                   *)
(***************************************************************************)
\* A status map with the labels of the one-sided changes exchanged.
status_label_exchanged(conflict) ==
    CASE conflict = "none" -> "in_sync"
      [] conflict = "local_only" -> "remote_ahead"
      [] conflict = "remote_only" -> "local_ahead"
      [] conflict = "both_changed" -> "conflict"
      [] OTHER -> "unlinked"

\* The status_map of _compute_status
status_label(conflict) ==
    CASE conflict = "none" -> "in_sync"
      [] conflict = "local_only" -> "local_ahead"
      [] conflict = "remote_only" -> "remote_ahead"
      [] conflict = "both_changed" -> "conflict"
      [] OTHER -> "unlinked"

\* The metadata fetch of a status query fails: fail_docs are the documents
\* whose fetch fails for the network's sake.
FetchFails(d, fail_docs) ==
    d \notin Docs \/ ~remote[d].exists \/ d \in fail_docs

\* SyncEngine._compute_status
compute_status(m, fail_docs) ==
    IF FetchFails(m.lark_document_id, fail_docs)
    THEN "unlinked"
    ELSE status_label(detect(m, remote[m.lark_document_id].revision_id))

\* Lines 439-446: the mappings of ms whose document id is not in seen, each
\* document id once.
RECURSIVE Dedupe(_, _)
Dedupe(ms, seen) ==
    IF ms = <<>> THEN <<>>
    ELSE IF Head(ms).lark_document_id \in seen THEN Dedupe(Tail(ms), seen)
    ELSE <<Head(ms)>> \o
         Dedupe(Tail(ms), seen \cup {Head(ms).lark_document_id})

\* The SyncStatusEntry of a mapping; the mapping is kept beside the entry's
\* fields to relate the label to what was examined.
StatusEntry(m, fail_docs) ==
    [local_path |-> m.local_path, document_id |-> m.lark_document_id,
     status |-> compute_status(m, fail_docs), mapping |-> m]

\* SyncEngine.get_sync_status: [entries, stores]
get_sync_status(path_arg, fail_docs) ==
    LET sid == get_state_manager(stores, path_arg)
        one == [cache_manager(stores, sid) EXCEPT ![sid] = load(@)]
        all == [stores EXCEPT !["global"] = load(@),
                              !["project"] = IF @.cached THEN load(@) ELSE @]
        mappings ==
            IF path_arg # NoPath
            THEN SelectSeq(one[sid].mem,
                     LAMBDA m : m.local_path = path_arg
                        \/ m.local_path = normalize_path(one[sid].root, path_arg))
            ELSE Dedupe(all["global"].mem \o
                        (IF all["project"].cached THEN all["project"].mem
                         ELSE <<>>), {})
    IN [entries |-> [i \in 1..Len(mappings) |->
                        StatusEntry(mappings[i], fail_docs)],
        stores |-> IF path_arg # NoPath THEN one ELSE all]

(***************************************************************************)
(* init_project_sync (tools/sync_tools.py).                                *)
(***************************************************************************)
\* Lines 92-106: the global mappings whose file lives inside the project,
\* cloned with a path relative to the Git root.
migrate(ms, git_root) ==
    LET inside == SelectSeq(ms, LAMBDA m : IsAbsolute(m.local_path)
                                    /\ ParentDir(m.local_path) = git_root)
    IN [i \in 1..Len(inside) |-> [inside[i] EXCEPT !.local_path = RelPath]]

\* [success, stores]
init_project_sync(project_path) ==
    IF project_path # ProjectRoot \/ stores["project"].exists
    THEN [success |-> FALSE, stores |-> stores]
    ELSE LET g == load(stores["global"])
             migrated == migrate(g.mem, ProjectRoot)
         IN [success |-> TRUE,
             stores |-> [stores EXCEPT
                 !["global"] = g,
                 !["project"] = [root |-> ProjectRoot, exists |-> TRUE,
                                 cached |-> TRUE, loaded |-> TRUE,
                                 mem |-> migrated, disk |-> migrated]]]

(***************************************************************************)
(* The sync state machine: the engine's operations and the environment's   *)
(* edits.  last holds the last operation's result and one fact of the      *)
(* state it started in:                                                    *)
(*   diverged  the call was not forced and found a mapping whose file      *)
(*             exists with a content hash other than the stored hash, and  *)
(*             whose remote document's revision is above the stored one;   *)
(*   repeat    the call is a non-forced push of the path whose successful  *)
(*             push was the last operation, status queries aside;          *)
(*   kind      the classification of the mapping the call found, in the    *)
(*             state it started in, when the call was not forced and its   *)
(*             metadata fetch succeeded ("unchecked" otherwise).           *)
(***************************************************************************)
Range(seq) == {seq[i] : i \in 1..Len(seq)}

\* The contents an edit may leave in a file.
EditContents == {"\n", "x\n"}

NoLast ==
    [op |-> "none", path |-> NoPath, res |-> "none", conflict |-> "none",
     calls |-> <<>>, fetched |-> "skipped", diverged |-> FALSE,
     repeat |-> FALSE, failDocs |-> {}, entries |-> <<>>, kind |-> "unchecked",
     doc |-> NoDoc]

NoStreak == [path |-> NoPath, n |-> 0]

\* The mappings a store holds: in memory once loaded, and on disk.
Held(s) == [mem |-> IF s.loaded THEN s.mem
                    ELSE IF s.exists THEN s.disk ELSE <<>>,
            disk |-> IF s.exists THEN s.disk ELSE <<>>]

HeldBy(st) == [sid \in StoreIds |-> Held(st[sid])]

\* The file at abs exists and its hash is not the hash stored in m.
HashDiffers(abs, m) ==
    /\ files[abs] # Missing
    /\ compute_content_hash(files[abs]) # m.local_hash_at_sync

RevisionAbove(d, m) ==
    /\ d \in Docs
    /\ remote[d].exists
    /\ remote[d].revision_id > m.remote_revision_at_sync

RevisionsBounded(r) == \A d \in Docs : r[d].revision_id <= MaxRev

Push(p, docArg, force, net) ==
    \E out \in {sync_to_lark(p, docArg, force, net)} :
       /\ "documents.create" \in Range(out.calls) => FreeDocs(remote) # {}
       /\ RevisionsBounded(out.remote)
       /\ remote' = out.remote
       /\ stores' = out.stores
       /\ files' = out.files
       /\ last' = [NoLast EXCEPT
              !.op = "push", !.res = out.res, !.conflict = out.conflict,
              !.path = p, !.doc = out.document_id,
              !.kind = IF ~force /\ out.had /\ out.fetched = "ok"
                       THEN detect(out.mapping,
                                   remote[out.document_id].revision_id)
                       ELSE "unchecked",
              !.calls = out.calls, !.fetched = out.fetched,
              !.diverged = /\ ~force
                           /\ out.had
                           /\ HashDiffers(OsPath(p), out.mapping)
                           /\ RevisionAbove(out.document_id, out.mapping),
              !.repeat = ~force /\ streak.path = p]
       /\ streak' = IF out.res # "ok" THEN NoStreak
                    ELSE IF streak.path = p /\ ~force
                         THEN [path |-> p, n |-> 2]
                         ELSE [path |-> p, n |-> 1]
       /\ UNCHANGED <<cwd, probe, tbl, mat, sm, conv, job, lim>>

Pull(d, pArg, force, net) ==
    \E out \in {sync_from_lark(d, pArg, force, net)} :
    \E mapped \in {OsPath(resolve_path(out.stores[out.store].root,
                                       out.mapping.local_path))} :
       /\ remote' = out.remote
       /\ stores' = out.stores
       /\ files' = out.files
       /\ last' = [NoLast EXCEPT
              !.op = "pull", !.res = out.res, !.conflict = out.conflict,
              !.doc = d,
              !.kind = IF ~force /\ out.had /\ out.fetched = "ok"
                       THEN detect(out.mapping, remote[d].revision_id)
                       ELSE "unchecked",
              !.calls = out.calls, !.fetched = out.fetched,
              !.diverged = /\ ~force
                           /\ out.had
                           /\ HashDiffers(mapped, out.mapping)
                           /\ RevisionAbove(d, out.mapping)]
       /\ streak' = NoStreak
       /\ UNCHANGED <<cwd, probe, tbl, mat, sm, conv, job, lim>>

Status(pArg, failDocs) ==
    \E out \in {get_sync_status(pArg, failDocs)} :
       /\ stores' = out.stores
       /\ last' = [NoLast EXCEPT !.op = "status", !.path = pArg,
                                 !.res = "ok", !.failDocs = failDocs,
                                 !.entries = out.entries]
       /\ UNCHANGED <<cwd, files, remote, streak, probe, tbl, mat, sm, conv, job, lim>>

InitProjectSync(dir) ==
    LET out == init_project_sync(dir)
    IN /\ stores' = out.stores
       /\ last' = [NoLast EXCEPT !.op = "init_project",
                       !.res = IF out.success THEN "ok" ELSE "fail"]
       /\ streak' = NoStreak
       /\ UNCHANGED <<cwd, files, remote, probe, tbl, mat, sm, conv, job, lim>>

\* Somebody edits, creates or deletes a local file.
LocalEdit(abs, c) ==
    /\ files[abs] # c
    /\ files' = [files EXCEPT ![abs] = c]
    /\ last' = [NoLast EXCEPT !.op = "local_edit"]
    /\ streak' = NoStreak
    /\ UNCHANGED <<cwd, remote, stores, probe, tbl, mat, sm, conv, job, lim>>

\* Somebody else edits a remote document.
RemoteEdit(d, body) ==
    /\ remote[d].exists
    /\ remote[d].revision_id < MaxRev
    /\ remote' = SetBody(remote, d, body)
    /\ last' = [NoLast EXCEPT !.op = "remote_edit"]
    /\ streak' = NoStreak
    /\ UNCHANGED <<cwd, files, stores, probe, tbl, mat, sm, conv, job, lim>>

NoProbe == [op |-> "none"]
NoTable == [op |-> "none"]

Init ==
    /\ cwd \in Dirs
    /\ files = [abs \in AbsPaths |-> "x\n"]
    /\ remote = [d \in Docs |-> [exists |-> FALSE, revision_id |-> 0, body |-> "empty"]]
    /\ \E initialized \in BOOLEAN :
          stores = [sid \in StoreIds |->
                       IF sid = "global"
                       THEN [root |-> NoRoot, exists |-> FALSE, cached |-> TRUE,
                             loaded |-> FALSE, mem |-> <<>>, disk |-> <<>>]
                       ELSE [root |-> ProjectRoot, exists |-> initialized,
                             cached |-> FALSE, loaded |-> FALSE,
                             mem |-> <<>>, disk |-> <<>>]]
    /\ last = NoLast
    /\ streak = NoStreak
    /\ probe = NoProbe
    /\ tbl = NoTable
    /\ mat = Idle
    /\ sm = Idle
    /\ conv = Idle
    /\ job = Idle
    /\ lim = Idle

\* The paths callers pass to the engine.
PushPaths == {ProjFile}

\* The files somebody edits: the tracked file.
EditPaths == {ProjFile}

PushNets ==
    {[check |-> TRUE, failAt |-> f] : f \in FailPoints}
        \cup {[check |-> FALSE, failAt |-> "none"]}

PullNets ==
    {[get |-> TRUE, list |-> TRUE, null_children |-> FALSE],
     [get |-> FALSE, list |-> TRUE, null_children |-> FALSE],
     [get |-> TRUE, list |-> FALSE, null_children |-> FALSE],
     [get |-> TRUE, list |-> TRUE, null_children |-> TRUE]}

Next ==
    \/ \E p \in PushPaths, docArg \in Docs \cup {NoDoc}, force \in BOOLEAN,
          net \in PushNets : Push(p, docArg, force, net)
    \/ \E d \in Docs, pArg \in PushPaths \cup {NoPath}, force \in BOOLEAN,
          net \in PullNets : Pull(d, pArg, force, net)
    \/ \E pArg \in PushPaths \cup {NoPath}, failDocs \in SUBSET Docs :
          Status(pArg, failDocs)
    \/ \E dir \in Dirs : InitProjectSync(dir)
    \/ \E abs \in EditPaths, c \in EditContents \cup {Missing} : LocalEdit(abs, c)
    \/ \E d \in Docs, body \in Bodies : RemoteEdit(d, body)

Spec == Init /\ [][Next]_vars

(***************************************************************************)
(* Properties of the sync state machine (under Spec).                      *)
(***************************************************************************)
BlockWrites == {"batch_delete", "create_children"}

IsSync(l) == l.op \in {"push", "pull"}

\* C1: a non-forced push of a mapped file whose content hash differs from
\* the stored hash, while the remote revision is above the stored one,
\* returns a failure carrying BOTH_CHANGED, issues no remote delete, create
\* or patch, and leaves the mappings unchanged (here: even when the
\* conflict check's metadata fetch succeeded).
C1_PushConflictAborts ==
    [][(last'.op = "push" /\ last'.diverged /\ last'.fetched = "ok") =>
          /\ last'.res = "fail"
          /\ last'.conflict = "both_changed"
          /\ Range(last'.calls) \cap WriteCalls = {}
          /\ HeldBy(stores') = HeldBy(stores)]_vars

\* C2: a non-forced pull of a mapped document whose local file's hash
\* differs from the stored hash, while the remote revision is above the
\* stored one, returns a failure carrying BOTH_CHANGED, does not write the
\* local file and leaves the mappings unchanged (here: when the metadata
\* fetch succeeded).
C2_PullConflictAborts ==
    [][(last'.op = "pull" /\ last'.diverged /\ last'.fetched = "ok") =>
          /\ last'.res = "fail"
          /\ last'.conflict = "both_changed"
          /\ files' = files
          /\ HeldBy(stores') = HeldBy(stores)]_vars

\* C5: pushing the same unchanged file twice, no remote change in between
\* and the second push not forced, gives no conflict result, and a status
\* query for that file made afterwards, its metadata fetch succeeding,
\* reports IN_SYNC.
C5_PushTwiceInSync ==
    /\ (last.op = "push" /\ last.repeat) => last.conflict # "both_changed"
    /\ (last.op = "status" /\ streak.n = 2 /\ last.path = streak.path) =>
          /\ last.entries # <<>>
          /\ \A i \in DOMAIN last.entries :
                last.entries[i].document_id \notin last.failDocs
                    => last.entries[i].status = "in_sync"

\* C6: no exception leaves sync_to_lark or sync_from_lark: every failure
\* is returned as a result.
C6_NoExceptionEscapes == IsSync(last) => last.res # "raise"

\* C7: a push or pull that does not succeed leaves the mappings held by
\* every state store, in memory and on disk, exactly as they were.
C7_FailedSyncKeepsMappings ==
    [][(IsSync(last') /\ last'.res # "ok")
          => HeldBy(stores') = HeldBy(stores)]_vars

\* A push raised after it had cleared the remote document, with a mapping
\* held by some store.
C7_Witness ==
    /\ last.op = "push"
    /\ last.res = "raise"
    /\ "batch_delete" \in Range(last.calls)
    /\ \E sid \in StoreIds : Held(stores[sid]).mem # <<>>

\* C8: when the metadata fetch of a non-forced push's conflict check fails,
\* the push deletes and creates no remote blocks.
C8_FetchFailureAborts ==
    (last.op = "push" /\ last.fetched = "failed")
        => Range(last.calls) \cap BlockWrites = {}

\* The label the specification gives each classification.
LabelOf(kind) ==
    CASE kind = "none" -> "in_sync"
      [] kind = "local_only" -> "local_ahead"
      [] kind = "remote_only" -> "remote_ahead"
      [] kind = "both_changed" -> "conflict"

\* Every reported entry is UNLINKED iff its metadata fetch failed, and
\* otherwise carries the label of its mapping's classification.
StatusLabels ==
    last.op = "status" =>
        \A i \in DOMAIN last.entries :
           LET e == last.entries[i]
               failed == e.document_id \in last.failDocs
                            \/ ~remote[e.document_id].exists
           IN /\ e.status = "unlinked" <=> failed
              /\ ~failed =>
                    e.status = LabelOf(detect(e.mapping,
                                   remote[e.document_id].revision_id))

Recorded(st, d, hash, rev) ==
    \E sid \in StoreIds :
       LET h == Held(st[sid])
       IN /\ h.mem = h.disk
          /\ \E i \in DOMAIN h.mem :
                /\ h.mem[i].lark_document_id = d
                /\ h.mem[i].local_hash_at_sync = hash
                /\ h.mem[i].remote_revision_at_sync = rev

\* C25: a status query made right after a successful pull (so neither the
\* written file nor the remote document has changed), its metadata fetch
\* succeeding, reports IN_SYNC for the mapping of the pulled document
\* (here: with no project-local state file, every mapping in the global
\* state).
C25_StatusInSyncAfterPull ==
    [][(/\ last.op = "pull"
        /\ last.res = "ok"
        /\ ~stores["project"].exists
        /\ last'.op = "status"
        /\ last'.path = NoPath
        /\ last.doc \notin last'.failDocs) =>
          \E i \in DOMAIN last'.entries :
             /\ last'.entries[i].document_id = last.doc
             /\ last'.entries[i].status = "in_sync"]_vars

C27_LocalChangeSeenFromAnyCwd ==
    (last.op = "status" /\ last.path = ProjFile /\ stores["project"].exists) =>
        \A i \in DOMAIN last.entries :
           LET e == last.entries[i]
           IN (/\ e.document_id \notin last.failDocs
               /\ remote[e.document_id].exists
               /\ ~IsAbsolute(e.mapping.local_path)
               /\ HashDiffers(Join(ProjectRoot, e.mapping.local_path),
                              e.mapping))
                 => e.status \in {"local_ahead", "conflict"}

\* init_project_sync has migrated the mapping of document d: the global
\* state holds it under the file's absolute path and the project-local
\* state under the relative one.  (A global mapping of a file inside the
\* repository is only ever added while the project has no state file, and
\* the state file is only ever created by init_project_sync.)
Migrated(d) ==
    /\ stores["project"].exists
    /\ \E i \in DOMAIN Held(stores["global"]).mem :
          /\ Held(stores["global"]).mem[i].local_path = ProjFile
          /\ Held(stores["global"]).mem[i].lark_document_id = d
    /\ \E j \in DOMAIN Held(stores["project"]).mem :
          /\ Held(stores["project"]).mem[j].local_path = RelPath
          /\ Held(stores["project"]).mem[j].lark_document_id = d

\* C28: once init_project_sync has migrated a document's mapping, a push
\* of the file made right after a successful pull of that document (no
\* change on either side in between) is not rejected as a conflict (here:
\* with the process working in the project root).
C28_PushAfterPullNotRejected ==
    [][(/\ last.op = "pull"
        /\ last.res = "ok"
        /\ Migrated(last.doc)
        /\ cwd = ProjectRoot
        /\ last'.op = "push") =>
          last'.conflict # "both_changed"]_vars

\* C30: a pull whose block listing succeeds on a document with no blocks
\* under its page block (the children field absent or null) completes
\* without an exception and writes a file holding a single newline.
C30_EmptyDocumentPulls ==
    [][(/\ last'.op = "pull"
        /\ last'.res # "fail"
        /\ "list_all_blocks" \in Range(last'.calls)
        /\ remote[last'.doc].body = "empty") =>
          /\ last'.res = "ok"
          /\ \E abs \in AbsPaths : files' = [files EXCEPT ![abs] = "\n"]]_vars

(***************************************************************************)
(* The classification probe: one call of ConflictDetector.detect on a      *)
(* mapping and a current revision drawn from bounded sets, with the file   *)
(* system in any state.                                                    *)
(***************************************************************************)
Hashes == {compute_content_hash(c) : c \in Contents}

ProbeInputs ==
    [mapping : {Mapping(p, "d1", h, r) :
                    p \in PathStrs, h \in Hashes \cup {NoHash}, r \in 0..MaxProbeRev},
     current_revision : 0..MaxProbeRev]

InitDetect ==
    /\ cwd \in Dirs
    /\ files \in [AbsPaths -> Contents \cup {Missing}]
    /\ remote = [d \in Docs |-> [exists |-> FALSE, revision_id |-> 0, body |-> "empty"]]
    /\ stores = [sid \in StoreIds |->
                    [root |-> IF sid = "global" THEN NoRoot ELSE ProjectRoot,
                     exists |-> FALSE, cached |-> sid = "global",
                     loaded |-> FALSE, mem |-> <<>>, disk |-> <<>>]]
    /\ last = NoLast
    /\ streak = NoStreak
    /\ \E in \in ProbeInputs :
          probe = [op |-> "input", mapping |-> in.mapping,
                   current_revision |-> in.current_revision,
                   local_changed |-> FALSE, remote_changed |-> FALSE,
                   result |-> "none"]
    /\ tbl = NoTable
    /\ mat = Idle
    /\ sm = Idle
    /\ conv = Idle
    /\ job = Idle
    /\ lim = Idle

Detect ==
    /\ probe.op = "input"
    /\ probe' = [probe EXCEPT
           !.op = "detect",
           !.local_changed = has_local_changes(probe.mapping),
           !.remote_changed =
               has_remote_changes(probe.mapping, probe.current_revision),
           !.result = detect(probe.mapping, probe.current_revision)]
    /\ UNCHANGED <<cwd, files, remote, stores, last, streak, tbl, mat, sm, conv, job, lim>>

NextDetect == Detect

SpecDetect == InitDetect /\ [][NextDetect]_vars

(***************************************************************************)
(* Properties of the classification (under SpecDetect).                    *)
(***************************************************************************)
\* The file the probed mapping's path names, as the process opens it.
ProbeFile == files[OsPath(probe.mapping.local_path)]

ProbeStoredHash == probe.mapping.local_hash_at_sync

ProbeStoredRev == probe.mapping.remote_revision_at_sync

\* The classification table: the kind for each pair of change predicates.
Classify(local_changed, remote_changed) ==
    CASE local_changed /\ remote_changed -> "both_changed"
      [] local_changed /\ ~remote_changed -> "local_only"
      [] ~local_changed /\ remote_changed -> "remote_only"
      [] OTHER -> "none"

\* The classification as a function of the four values alone.
ClassifyTuple(stored_hash, current_hash, stored_revision, current_revision) ==
    Classify(stored_hash = NoHash \/ current_hash # stored_hash,
             stored_revision = 0 \/ current_revision > stored_revision)

ExampleH == compute_content_hash("x\n")

ExampleHPrime == compute_content_hash("\n")

\* C3: detect returns BOTH_CHANGED when both change predicates are true,
\* LOCAL_ONLY when only the local one is, REMOTE_ONLY when only the remote
\* one is and NONE otherwise; for an existing file the result is a function
\* of (stored hash, current hash, stored revision, current revision), and
\* (h,h,5,5) -> NONE, (h,h',5,5) -> LOCAL_ONLY, (h,h,5,7) -> REMOTE_ONLY,
\* (h,h',5,7) -> BOTH_CHANGED.
C3_DetectTable ==
    probe.op = "detect" =>
        /\ probe.result = Classify(probe.local_changed, probe.remote_changed)
        /\ ProbeFile # Missing =>
              LET current_hash == compute_content_hash(ProbeFile)
              IN /\ probe.result =
                        ClassifyTuple(ProbeStoredHash, current_hash,
                                      ProbeStoredRev, probe.current_revision)
                 /\ (ProbeStoredHash = ExampleH /\ ProbeStoredRev = 5) =>
                       /\ (current_hash = ExampleH /\ probe.current_revision = 5)
                              => probe.result = "none"
                       /\ (current_hash = ExampleHPrime /\ probe.current_revision = 5)
                              => probe.result = "local_only"
                       /\ (current_hash = ExampleH /\ probe.current_revision = 7)
                              => probe.result = "remote_only"
                       /\ (current_hash = ExampleHPrime /\ probe.current_revision = 7)
                              => probe.result = "both_changed"

\* The (h,h,5,7) example has been classified REMOTE_ONLY on a file stored
\* with CRLF line endings.
C3_Witness ==
    /\ probe.op = "detect"
    /\ ProbeFile = "x\r\n"
    /\ ProbeStoredHash = ExampleH
    /\ ProbeStoredRev = 5
    /\ probe.current_revision = 7
    /\ probe.result = "remote_only"

\* C4: has_local_changes is false when the mapped file does not exist, true
\* when it exists and no hash was recorded, and otherwise true exactly when
\* the current hash differs from the stored one; has_remote_changes is true
\* when the stored revision is 0 and otherwise true exactly when the current
\* revision is strictly greater than the stored one.
C4_ChangePredicates ==
    probe.op = "detect" =>
        /\ ProbeFile = Missing => ~probe.local_changed
        /\ (ProbeFile # Missing /\ ProbeStoredHash = NoHash) => probe.local_changed
        /\ (ProbeFile # Missing /\ ProbeStoredHash # NoHash) =>
              (probe.local_changed
                  <=> compute_content_hash(ProbeFile) # ProbeStoredHash)
        /\ ProbeStoredRev = 0 => probe.remote_changed
        /\ ProbeStoredRev # 0 =>
              (probe.remote_changed <=> probe.current_revision > ProbeStoredRev)

\* A deleted file and a current revision equal to the stored, recorded one:
\* neither predicate reports a change.
C4_Witness ==
    /\ probe.op = "detect"
    /\ ProbeFile = Missing
    /\ ProbeStoredHash # NoHash
    /\ ProbeStoredRev > 0
    /\ probe.current_revision = ProbeStoredRev
    /\ ~probe.local_changed
    /\ ~probe.remote_changed

(***************************************************************************)
(* Table materialization (SyncEngine._create_table_block).  A local table  *)
(* of R rows and C columns is drawn with an emptiness pattern (m, k): cell *)
(* i (row-major, from 0) is empty iff i % m = k.  The remote store creates *)
(* a table's cells row by row, each with one empty TEXT child.             *)
(***************************************************************************)
MAX_TABLE_ROWS == 9

TABLE_PAGE_WIDTH == 686

Min(a, b) == IF a <= b THEN a ELSE b

\* The text runs of the local cell i: none for an empty cell.
CellRuns(m, k, i) == IF i % m = k THEN <<>> ELSE << <<"c">>, <<i>> >>

\* The TABLE block the Markdown converter builds: row_size * column_size
\* TABLE_CELL children, each wrapping one TEXT block (kept as its runs).
TableBlock(R, C, m, k) ==
    [row_size |-> R, column_size |-> C,
     children |-> [i \in 1..(R * C) |-> CellRuns(m, k, i - 1)]]

\* "".join(parts)
RECURSIVE JoinRuns(_)
JoinRuns(runs) ==
    IF runs = <<>> THEN <<>> ELSE Head(runs) \o JoinRuns(Tail(runs))

\* _extract_cell_text reading the cell after the one asked for.
extract_cell_text_shifted(children, index) ==
    IF index + 1 >= Len(children) THEN <<>>
    ELSE JoinRuns(children[index + 2])

\* SyncEngine._extract_cell_text
extract_cell_text(children, index) ==
    IF index >= Len(children) THEN <<>>
    ELSE JoinRuns(children[index + 1])

\* How the remote calls of one materialization end.
TableNetOk == [create |-> "ok", insert_fail |-> "none", get_ok |-> TRUE,
               batch_ok |-> TRUE, width_ok |-> TRUE]

TableNets ==
    {TableNetOk,
     [TableNetOk EXCEPT !.create = "raise"],
     [TableNetOk EXCEPT !.create = "empty"],
     [TableNetOk EXCEPT !.insert_fail = "first"],
     [TableNetOk EXCEPT !.insert_fail = "all"],
     [TableNetOk EXCEPT !.get_ok = FALSE],
     [TableNetOk EXCEPT !.batch_ok = FALSE],
     [TableNetOk EXCEPT !.width_ok = FALSE]}

InsertFails(net, row_idx) ==
    \/ net.insert_fail = "all"
    \/ net.insert_fail = "first" /\ row_idx = MAX_TABLE_ROWS

\* SyncEngine._create_table_block: [res, log, warnings], log the remote
\* calls in order, warnings the failures written to the logger (the calls
\* whose response is tested: lines 613 and 704; the response of a column
\* width patch, line 643, is dropped)
create_table_block(table_block, net) ==
    LET children == table_block.children
        total_rows == table_block.row_size
        col_count == table_block.column_size
        initial_rows == Min(total_rows, MAX_TABLE_ROWS)
        create_call == [name |-> "create_children", row_size |-> initial_rows,
                        column_size |-> col_count]
        inserts == [j \in 1..(total_rows - initial_rows) |->
                       [name |-> "insert_table_row",
                        row_index |-> initial_rows + j - 1]]
        col_width == TABLE_PAGE_WIDTH \div col_count
        widths == [j \in 1..col_count |->
                      [name |-> "update_table_property",
                       column_index |-> j - 1, column_width |-> col_width]]
        remote_rows ==
            initial_rows + Cardinality({j \in 1..Len(inserts) :
                               ~InsertFails(net, inserts[j].row_index)})
        cell_ids == [i \in 1..(remote_rows * col_count) |-> i - 1]
        get_table == [name |-> "get_block", block |-> <<"table">>]
        get_cells == [i \in 1..Len(cell_ids) |->
                         [name |-> "get_block", block |-> <<"cell", cell_ids[i]>>]]
        filled == SelectSeq(cell_ids,
                      LAMBDA i : extract_cell_text(children, i) # <<>>)
        updates == [j \in 1..Len(filled) |->
                       [block_id |-> <<"text", filled[j]>>,
                        content |-> extract_cell_text(children, filled[j])]]
        batch == IF updates = <<>> THEN <<>>
                 ELSE <<[name |-> "batch_update", requests |-> updates]>>
        insert_warnings ==
            SelectSeq(inserts, LAMBDA c : InsertFails(net, c.row_index))
        batch_warnings ==
            IF batch # <<>> /\ ~net.batch_ok
            THEN <<[name |-> "batch_update"]>> ELSE <<>>
    IN IF total_rows = 0 \/ col_count = 0
       THEN [res |-> "ok", log |-> <<>>, warnings |-> <<>>]
       ELSE IF net.create = "raise"
       THEN [res |-> "raise", log |-> <<create_call>>, warnings |-> <<>>]
       ELSE IF net.create = "empty"
       THEN [res |-> "ok", log |-> <<create_call>>, warnings |-> <<>>]
       ELSE IF ~net.get_ok
       THEN [res |-> "raise",
             log |-> <<create_call>> \o inserts \o widths \o <<get_table>>,
             warnings |-> insert_warnings]
       ELSE [res |-> "ok",
             log |-> <<create_call>> \o inserts \o widths \o <<get_table>>
                        \o get_cells \o batch,
             warnings |-> insert_warnings \o batch_warnings]

InitTable ==
    /\ cwd = HomeDir
    /\ files = [abs \in AbsPaths |-> "x\n"]
    /\ remote = [d \in Docs |-> [exists |-> FALSE, revision_id |-> 0, body |-> "empty"]]
    /\ stores = [sid \in StoreIds |->
                    [root |-> IF sid = "global" THEN NoRoot ELSE ProjectRoot,
                     exists |-> FALSE, cached |-> sid = "global",
                     loaded |-> FALSE, mem |-> <<>>, disk |-> <<>>]]
    /\ last = NoLast
    /\ streak = NoStreak
    /\ probe = NoProbe
    /\ mat = Idle
    /\ sm = Idle
    /\ conv = Idle
    /\ job = Idle
    /\ lim = Idle
    /\ \E R \in 0..MaxRows, C \in 0..MaxCols, m \in 1..MaxPeriod, net \in TableNets :
          \E k \in 0..m :
             tbl = [op |-> "input", rows |-> R, cols |-> C, m |-> m, k |-> k,
                    net |-> net, res |-> "none", log |-> <<>>,
                    warnings |-> <<>>]

Materialize ==
    /\ tbl.op = "input"
    /\ \E out \in {create_table_block(
                       TableBlock(tbl.rows, tbl.cols, tbl.m, tbl.k), tbl.net)} :
          tbl' = [tbl EXCEPT !.op = "materialize", !.res = out.res,
                             !.log = out.log, !.warnings = out.warnings]
    /\ UNCHANGED <<cwd, files, remote, stores, last, streak, probe, mat, sm, conv, job, lim>>

NextTable == Materialize

SpecTable == InitTable /\ [][NextTable]_vars

(***************************************************************************)
(* Properties of the table materialization (under SpecTable).              *)
(***************************************************************************)
TblCalls(name) == SelectSeq(tbl.log, LAMBDA c : c.name = name)

\* The non-empty cells of the local table, row-major.
NonEmptyLocalCells ==
    SelectSeq([i \in 1..(tbl.rows * tbl.cols) |-> i - 1],
              LAMBDA i : i % tbl.m # tbl.k)

\* C10: with every remote call succeeding, a local table of R >= 1 rows and
\* C >= 1 columns is materialized by exactly one creation call with
\* row_size = min(R, 9), followed by exactly max(0, R - 9) row inserts with
\* indices 9 .. R-1 in increasing order, and at most one batched text update
\* holding exactly one request per non-empty local cell in row-major order
\* (none when every cell is empty); R = 12, C = 3 with no empty cell gives
\* 1 creation, 3 row inserts and 1 batch of 36 requests.
C10_TableCalls ==
    (tbl.op = "materialize" /\ tbl.net = TableNetOk
        /\ tbl.rows >= 1 /\ tbl.cols >= 1) =>
        LET creates == TblCalls("create_children")
            inserts == TblCalls("insert_table_row")
            batches == TblCalls("batch_update")
            extra == IF tbl.rows > 9 THEN tbl.rows - 9 ELSE 0
        IN /\ tbl.res = "ok"
           /\ Len(creates) = 1
           /\ tbl.log[1] = [name |-> "create_children",
                            row_size |-> IF tbl.rows < 9 THEN tbl.rows ELSE 9,
                            column_size |-> tbl.cols]
           /\ Len(inserts) = extra
           /\ \A j \in 1..extra :
                 tbl.log[1 + j] = [name |-> "insert_table_row",
                                   row_index |-> 9 + j - 1]
           /\ Len(batches) <= 1
           /\ NonEmptyLocalCells = <<>> => batches = <<>>
           /\ NonEmptyLocalCells # <<>> =>
                 /\ Len(batches) = 1
                 /\ tbl.log[Len(tbl.log)].name = "batch_update"
                 /\ batches[1].requests =
                       [j \in 1..Len(NonEmptyLocalCells) |->
                           [block_id |-> <<"text", NonEmptyLocalCells[j]>>,
                            content |-> <<"c", NonEmptyLocalCells[j]>>]]
           /\ (tbl.rows = 12 /\ tbl.cols = 3 /\ tbl.k = tbl.m) =>
                 /\ Len(inserts) = 3
                 /\ Len(batches) = 1
                 /\ Len(batches[1].requests) = 36

\* The 12 x 3 table with no empty cell has been materialized, every call
\* succeeding, with a batch of 36 requests.
C10_Witness ==
    /\ tbl.op = "materialize"
    /\ tbl.net = TableNetOk
    /\ tbl.rows = 12
    /\ tbl.cols = 3
    /\ tbl.k = tbl.m
    /\ Len(TblCalls("insert_table_row")) = 3
    /\ Len(TblCalls("batch_update")) = 1
    /\ Len(tbl.log[Len(tbl.log)].requests) = 36

\* The table was created and its re-fetch succeeded: the calls of steps 2
\* to 6 are the ones that can fail without ending the sequence.
TableUnderWay ==
    /\ tbl.op = "materialize"
    /\ tbl.rows >= 1
    /\ tbl.cols >= 1
    /\ tbl.net.create = "ok"
    /\ tbl.net.get_ok

\* The row inserts that fail.
FailedInserts ==
    SelectSeq(TblCalls("insert_table_row"),
              LAMBDA c : InsertFails(tbl.net, c.row_index))

\* Whatever fails among the row inserts, the column widths and the batch
\* update, every row insert and every column width call is issued, the
\* table and each of its cells are fetched again, the batch update is
\* issued when a cell the remote table holds has text, and
\* _create_table_block returns.
TableSequenceContinues ==
    TableUnderWay =>
        LET extra == IF tbl.rows > 9 THEN tbl.rows - 9 ELSE 0
            kept == (IF tbl.rows < 9 THEN tbl.rows ELSE 9)
                        + extra - Len(FailedInserts)
            cells == SelectSeq(TblCalls("get_block"),
                               LAMBDA c : c.block[1] = "cell")
        IN /\ tbl.res = "ok"
           /\ [j \in 1..extra |-> TblCalls("insert_table_row")[j].row_index]
                  = [j \in 1..extra |-> 9 + j - 1]
           /\ [j \in 1..tbl.cols |->
                   TblCalls("update_table_property")[j].column_index]
                  = [j \in 1..tbl.cols |-> j - 1]
           /\ Len(TblCalls("update_table_property")) = tbl.cols
           /\ Len(cells) = kept * tbl.cols
           /\ (\E i \in 0..(kept * tbl.cols - 1) : i % tbl.m # tbl.k)
                  <=> Len(TblCalls("batch_update")) = 1

\* C22: when a row insert, a column width call or the batch update of a
\* table fails, the failure is logged and the rest of the sequence still
\* runs.
C22_TableFailuresLoggedAndPassed ==
    TableUnderWay =>
        /\ TableSequenceContinues
        /\ \A j \in DOMAIN FailedInserts :
              \E w \in DOMAIN tbl.warnings :
                 /\ tbl.warnings[w].name = "insert_table_row"
                 /\ tbl.warnings[w].row_index = FailedInserts[j].row_index
        /\ (~tbl.net.batch_ok /\ TblCalls("batch_update") # <<>>) =>
              \E w \in DOMAIN tbl.warnings :
                 tbl.warnings[w].name = "batch_update"
        /\ ~tbl.net.width_ok =>
              \E w \in DOMAIN tbl.warnings :
                 tbl.warnings[w].name = "update_table_property"

\* The failures of row inserts and of the batch update are logged.
TestedFailuresLogged ==
    TableUnderWay =>
        /\ Len(SelectSeq(tbl.warnings,
                         LAMBDA w : w.name = "insert_table_row"))
              = Len(FailedInserts)
        /\ (~tbl.net.batch_ok /\ TblCalls("batch_update") # <<>>) =>
              \E w \in DOMAIN tbl.warnings :
                 tbl.warnings[w].name = "batch_update"

(***************************************************************************)
(* Block materialization (SyncEngine._create_blocks_with_nesting).  A      *)
(* local block is a record with block_type and its body; only the blocks   *)
(* the converter gives a children key have one (quote containers, tables). *)
(* The remote store numbers the blocks it creates 1, 2, ... in creation    *)
(* order; 0 is the document's root block.                                  *)
(***************************************************************************)
MaxBlocks == 4

RootId == 0

TextBlock(b) == [block_type |-> "text", body |-> b]

QuoteBlock(children) ==
    [block_type |-> "quote_container", body |-> <<>>, children |-> children]

TableBlockOf(R, C, m, k) ==
    [block_type |-> "table", row_size |-> R, column_size |-> C,
     children |-> TableBlock(R, C, m, k).children]

\* The blocks a tree is built from: two texts, an empty quote container, a
\* table with an empty cell and a table of more than MAX_TABLE_ROWS rows.
LeafBlocks ==
    {TextBlock("a"), TextBlock("b"), QuoteBlock(<<>>),
     TableBlockOf(2, 2, 3, 1), TableBlockOf(MAX_TABLE_ROWS + 1, 1, 1, 1)}

\* block.get("children")
children_of(block) ==
    IF "children" \in DOMAIN block THEN block.children ELSE <<>>

\* {k: v for k, v in block.items() if k != "children"}
without_children(block) ==
    [key \in DOMAIN block \ {"children"} |-> block[key]]

\* A create_children that appends the blocks of a call in reverse order.
create_children_reversed(st, parent, blocks) ==
    [log |-> Append(st.log,
                 [name |-> "create_children", parent |-> parent,
                  blocks |-> [j \in 1..Len(blocks) |->
                                 blocks[Len(blocks) + 1 - j]],
                  ids |-> [j \in 1..Len(blocks) |-> st.next + j - 1]]),
     next |-> st.next + Len(blocks)]

\* A create_children that sends each block of a batch in a call of its own.
create_children_one_each(st, parent, blocks) ==
    [log |-> st.log \o
                 [j \in 1..Len(blocks) |->
                     [name |-> "create_children", parent |-> parent,
                      blocks |-> <<blocks[j]>>,
                      ids |-> <<st.next + j - 1>>]],
     next |-> st.next + Len(blocks)]

\* BlocksClient.create_children, every call succeeding: the blocks are
\* appended to the parent's children and get the next ids.
create_children(st, parent, blocks) ==
    [log |-> Append(st.log,
                 [name |-> "create_children", parent |-> parent,
                  blocks |-> blocks,
                  ids |-> [j \in 1..Len(blocks) |-> st.next + j - 1]]),
     next |-> st.next + Len(blocks)]

\* The call _create_blocks_with_nesting makes of _create_table_block: the
\* table's creation, then the calls that follow on the created table.
create_table_under(st, parent, block, net) ==
    LET out == create_table_block(block, net)
        made == create_children(st, parent,
                    <<[block_type |-> "table",
                       row_size |-> out.log[1].row_size,
                       column_size |-> out.log[1].column_size]>>)
    IN [log |-> Append(made.log,
                    [name |-> "table_calls", table |-> st.next,
                     calls |-> Tail(out.log), batch_ok |-> net.batch_ok]),
        next |-> made.next]

\* SyncEngine._create_blocks_with_nesting from the i-th block on, flat_batch
\* the pending run of childless blocks: the remote calls it issues.
RECURSIVE create_blocks_with_nesting_calls(_, _, _, _, _, _)
create_blocks_with_nesting_calls(st, parent, blocks, i, flat_batch, net) ==
    IF i > Len(blocks)
    THEN IF flat_batch # <<>>
         THEN create_children(st, parent, flat_batch) ELSE st
    ELSE
      LET block == blocks[i]
          children == children_of(block)
      IN IF children = <<>>
         THEN create_blocks_with_nesting_calls(
                  st, parent, blocks, i + 1, Append(flat_batch, block), net)
         ELSE
           LET flushed == IF flat_batch # <<>>
                          THEN create_children(st, parent, flat_batch)
                          ELSE st
           IN IF block.block_type = "table"
              THEN create_blocks_with_nesting_calls(
                       create_table_under(flushed, parent, block, net),
                       parent, blocks, i + 1, <<>>, net)
              ELSE
                LET created == create_children(flushed, parent,
                                   <<without_children(block)>>)
                    inner == create_blocks_with_nesting_calls(
                                 created, flushed.next, children, 1, <<>>, net)
                IN create_blocks_with_nesting_calls(
                       inner, parent, blocks, i + 1, <<>>, net)

\* Lines 216-274 of sync_to_lark around the materializer: no call raised,
\* so the push returns SyncResult(success=True).
push_result_of(st) == "success"

(***************************************************************************)
(* The remote document that a sequence of calls leaves (lark_client): the  *)
(* children of a block are the blocks created under it, in call order; a   *)
(* created table holds row_size * column_size cells, each with one empty   *)
(* text, a row insert adds column_size cells, and a batch update that      *)
(* succeeds sets the texts it names.                                       *)
(***************************************************************************)
RECURSIVE RemoteChildren(_, _)
RemoteChildren(log, parent) ==
    IF log = <<>> THEN <<>>
    ELSE LET c == Head(log)
             rest == RemoteChildren(Tail(log), parent)
         IN IF c.name = "create_children" /\ c.parent = parent
            THEN [j \in 1..Len(c.blocks) |->
                     [id |-> c.ids[j], block |-> c.blocks[j]]] \o rest
            ELSE rest

RemoteCellTexts(log, r) ==
    LET i == CHOOSE n \in 1..Len(log) :
                 log[n].name = "table_calls" /\ log[n].table = r.id
        calls == log[i].calls
        inserts == SelectSeq(calls, LAMBDA c : c.name = "insert_table_row")
        batches == SelectSeq(calls, LAMBDA c : c.name = "batch_update")
        n_cells == (r.block.row_size + Len(inserts)) * r.block.column_size
        requests == IF batches # <<>> /\ log[i].batch_ok
                    THEN batches[1].requests ELSE <<>>
        Named(cell) == {q \in 1..Len(requests) :
                           requests[q].block_id = <<"text", cell>>}
    IN [cell \in 1..n_cells |->
           IF Named(cell - 1) = {} THEN <<>>
           ELSE requests[CHOOSE q \in Named(cell - 1) : TRUE].content]

(***************************************************************************)
(* The materializer's state machine: a local block list is built block by  *)
(* block (as the converter appends them), then materialized.               *)
(***************************************************************************)
RECURSIVE Size(_)
Size(blocks) ==
    IF blocks = <<>> THEN 0
    ELSE 1 + (IF Head(blocks).block_type = "quote_container"
              THEN Size(Head(blocks).children) ELSE 0)
           + Size(Tail(blocks))

\* The places of the tree a block can be appended to: the top list (<<>>)
\* and the child list of every quote container.
RECURSIVE Paths(_)
Paths(blocks) ==
    {<<>>} \cup
    UNION {{<<i>> \o p : p \in Paths(blocks[i].children)} :
              i \in {j \in 1..Len(blocks) :
                        blocks[j].block_type = "quote_container"}}

RECURSIVE AppendAt(_, _, _)
AppendAt(blocks, path, block) ==
    IF path = <<>> THEN Append(blocks, block)
    ELSE [blocks EXCEPT ![Head(path)].children =
             AppendAt(@, Tail(path), block)]

InitMat ==
    /\ cwd = HomeDir
    /\ files = [abs \in AbsPaths |-> "x\n"]
    /\ remote = [d \in Docs |-> [exists |-> FALSE, revision_id |-> 0, body |-> "empty"]]
    /\ stores = [sid \in StoreIds |->
                    [root |-> IF sid = "global" THEN NoRoot ELSE ProjectRoot,
                     exists |-> FALSE, cached |-> sid = "global",
                     loaded |-> FALSE, mem |-> <<>>, disk |-> <<>>]]
    /\ last = NoLast
    /\ streak = NoStreak
    /\ probe = NoProbe
    /\ tbl = NoTable
    /\ sm = Idle
    /\ conv = Idle
    /\ job = Idle
    /\ lim = Idle
    /\ \E batch_ok \in BOOLEAN :
          mat = [op |-> "build", blocks |-> <<>>,
                 net |-> [TableNetOk EXCEPT !.batch_ok = batch_ok],
                 res |-> "none", log |-> <<>>]

AddBlock(path, block) ==
    /\ mat.op = "build"
    /\ Size(mat.blocks) < MaxBlocks
    /\ path \in Paths(mat.blocks)
    /\ mat' = [mat EXCEPT !.blocks = AppendAt(@, path, block)]
    /\ UNCHANGED <<cwd, files, remote, stores, last, streak, probe, tbl, sm, conv, job, lim>>

MaterializeBlocks ==
    /\ mat.op = "build"
    /\ \E out \in {create_blocks_with_nesting_calls(
                       [log |-> <<>>, next |-> 1], RootId, mat.blocks, 1,
                       <<>>, mat.net)} :
          mat' = [mat EXCEPT !.op = "done", !.log = out.log,
                             !.res = push_result_of(out)]
    /\ UNCHANGED <<cwd, files, remote, stores, last, streak, probe, tbl, sm, conv, job, lim>>

NextMat ==
    \/ \E path \in Paths(mat.blocks), block \in LeafBlocks : AddBlock(path, block)
    \/ MaterializeBlocks

SpecMat == InitMat /\ [][NextMat]_vars

(***************************************************************************)
(* Properties of the block materialization (under SpecMat).                *)
(***************************************************************************)
\* The remote children of parent equal the local blocks, in order, in kind
\* and body, and so on below them; a table's remote cell texts are the
\* local cells' concatenated texts.
RECURSIVE SameBlocks(_, _, _)
SameBlocks(local, log, parent) ==
    LET rc == RemoteChildren(log, parent)
    IN /\ Len(rc) = Len(local)
       /\ \A i \in 1..Len(local) :
             LET b == local[i]
                 r == rc[i]
             IN /\ r.block.block_type = b.block_type
                /\ IF b.block_type = "table"
                   THEN /\ r.block.column_size = b.column_size
                        /\ RemoteCellTexts(log, r) =
                              [c \in 1..(b.row_size * b.column_size) |->
                                  JoinRuns(b.children[c])]
                   ELSE /\ r.block.body = b.body
                        /\ SameBlocks(children_of(b), log, r.id)

\* C11: when every remote call succeeds and returns the created ids, the
\* remote children of the parent equal the local blocks in order and in
\* kind and body, recursively each container's remote children equal its
\* local children, and each table cell's remote text is the local cell's
\* concatenated text; no local block is dropped or reordered.
C11_MaterializedTreeEqualsLocal ==
    (mat.op = "done" /\ mat.net = TableNetOk)
        => SameBlocks(mat.blocks, mat.log, RootId)

\* A materialized list with a run of two texts, then a quote container
\* holding a table that has an empty cell.
C11_Witness ==
    /\ mat.op = "done"
    /\ mat.net = TableNetOk
    /\ Len(mat.blocks) = 3
    /\ mat.blocks[1] = TextBlock("a")
    /\ mat.blocks[2] = TextBlock("b")
    /\ mat.blocks[3] = QuoteBlock(<<TableBlockOf(2, 2, 3, 1)>>)
    /\ Len(mat.log) = 4

\* C12: if the batched cell-text update of a table fails during a push,
\* the push does not return the success result it returns when the cells
\* were all populated.
C12_CellUpdateFailureSurfaced ==
    (/\ mat.op = "done"
     /\ ~mat.net.batch_ok
     /\ \E n \in 1..Len(mat.log) :
           /\ mat.log[n].name = "table_calls"
           /\ \E c \in 1..Len(mat.log[n].calls) :
                 mat.log[n].calls[c].name = "batch_update")
        => mat.res # "success"

\* The positions in the log of the creation calls made under parent.
CreationsUnder(log, parent) ==
    SelectSeq([n \in 1..Len(log) |-> n],
              LAMBDA n : log[n].name = "create_children"
                            /\ log[n].parent = parent)

RECURSIVE SumLen(_, _, _)
SumLen(log, idx, upto) ==
    IF upto = 0 THEN 0
    ELSE Len(log[idx[upto]].blocks) + SumLen(log, idx, upto - 1)

HasChildren(block) == children_of(block) # <<>>

\* The creation calls under parent cut the local list into consecutive
\* pieces, each a maximal run of childless blocks sent as they are or one
\* block that has children; each container is created before anything is
\* created under it, and the same holds under every container.
RECURSIVE RunsAndContainers(_, _, _)
RunsAndContainers(local, log, parent) ==
    LET idx == CreationsUnder(log, parent)
        lo(j) == SumLen(log, idx, j - 1) + 1
        hi(j) == SumLen(log, idx, j)
    IN /\ SumLen(log, idx, Len(idx)) = Len(local)
       /\ \A j \in 1..Len(idx) :
             LET c == log[idx[j]]
             IN \/ /\ lo(j) = hi(j)
                   /\ HasChildren(local[lo(j)])
                   /\ local[lo(j)].block_type = c.blocks[1].block_type
                   /\ \A n \in 1..Len(log) :
                         (log[n].name = "create_children"
                             /\ log[n].parent = c.ids[1]) => n > idx[j]
                   /\ local[lo(j)].block_type = "quote_container" =>
                         RunsAndContainers(local[lo(j)].children, log, c.ids[1])
                \/ /\ lo(j) <= hi(j)
                   /\ \A i \in lo(j)..hi(j) :
                         ~HasChildren(local[i]) /\ c.blocks[i - lo(j) + 1] = local[i]
                   /\ lo(j) = 1 \/ HasChildren(local[lo(j) - 1])
                   /\ hi(j) = Len(local) \/ HasChildren(local[hi(j) + 1])

\* C20: for each parent the materializer issues exactly one creation call
\* per maximal run of consecutive childless siblings, holding exactly those
\* blocks in order, and one per block that has children; a pending run is
\* flushed before the container that follows it is created, and a
\* container's creation call precedes every creation call made under it.
C20_OneCallPerRunAndContainer ==
    mat.op = "done" => RunsAndContainers(mat.blocks, mat.log, RootId)

\* A materialized list: a run of two texts, then a quote container holding
\* a text: two creation calls under the root, then one under the container.
C20_Witness ==
    /\ mat.op = "done"
    /\ mat.blocks = <<TextBlock("a"), TextBlock("b"),
                      QuoteBlock(<<TextBlock("a")>>)>>
    /\ CreationsUnder(mat.log, RootId) = <<1, 2>>
    /\ CreationsUnder(mat.log, 3) = <<3>>

\* C21: no block of any create_children call the materializer makes
\* carries a children key, whatever the block tree (a quote container
\* without children included).
C21_NoChildrenKeySent ==
    mat.op = "done" =>
        \A i \in DOMAIN mat.log :
           mat.log[i].name = "create_children" =>
              \A j \in DOMAIN mat.log[i].blocks :
                 "children" \notin DOMAIN mat.log[i].blocks[j]

\* Containers that have children are sent without the key.
ParentsSentWithoutChildren ==
    mat.op = "done" =>
        \A i \in DOMAIN mat.log :
           mat.log[i].name = "create_children" =>
              \A j \in DOMAIN mat.log[i].blocks :
                 "children" \in DOMAIN mat.log[i].blocks[j]
                     => mat.log[i].blocks[j].children = <<>>

(***************************************************************************)
(* One state manager under direct calls of its mutation helpers            *)
(* (state.py SyncStateManager), from an empty state, in global or in       *)
(* project-local mode.                                                     *)
(***************************************************************************)
\* A store is followed while it holds no more mappings than there are paths.
MaxMappings == Cardinality(PathStrs)

StoreDocs == {"d1", "d2"}

\* The mappings a caller may pass to add_mapping.
NewMappings ==
    {Mapping(path, doc, NoHash, 0) : path \in PathStrs, doc \in StoreDocs}

\* The keyword arguments a caller may pass to update_mapping: names of
\* SyncMapping fields with new values.
Updates ==
    {[lark_document_id |-> "d2"], [remote_revision_at_sync |-> 1],
     [lark_document_id |-> "d1", remote_revision_at_sync |-> 1]}
        \cup {[local_path |-> path] : path \in PathStrs}

NoCall == [name |-> "none", key |-> NoPath, arg |-> <<>>, ok |-> TRUE]

InitStore ==
    /\ cwd = HomeDir
    /\ files = [abs \in AbsPaths |-> "x\n"]
    /\ remote = [d \in Docs |-> [exists |-> FALSE, revision_id |-> 0, body |-> "empty"]]
    /\ stores = [sid \in StoreIds |->
                    [root |-> IF sid = "global" THEN NoRoot ELSE ProjectRoot,
                     exists |-> FALSE, cached |-> sid = "global",
                     loaded |-> FALSE, mem |-> <<>>, disk |-> <<>>]]
    /\ last = NoLast
    /\ streak = NoStreak
    /\ probe = NoProbe
    /\ tbl = NoTable
    /\ mat = Idle
    /\ conv = Idle
    /\ job = Idle
    /\ lim = Idle
    /\ \E root \in {NoRoot, ProjectRoot} :
          sm = [op |-> "store",
                store |-> [root |-> root, exists |-> FALSE, cached |-> TRUE,
                           loaded |-> FALSE, mem |-> <<>>, disk |-> <<>>],
                call |-> NoCall]

AddMapping(m) ==
    /\ sm.op = "store"
    /\ \E out \in {add_mapping(sm.store, m)} :
          /\ Len(out.mem) <= MaxMappings
          /\ sm' = [sm EXCEPT !.store = out,
                              !.call = [name |-> "add", key |-> m.local_path,
                                        arg |-> m, ok |-> TRUE]]
    /\ UNCHANGED <<cwd, files, remote, stores, last, streak, probe, tbl, mat, conv, job, lim>>

UpdateMapping(p, updates) ==
    /\ sm.op = "store"
    /\ \E out \in {update_mapping(sm.store, p, updates)} :
          sm' = [sm EXCEPT !.store = out.store,
                           !.call = [name |-> "update", key |-> p,
                                     arg |-> updates, ok |-> out.ok]]
    /\ UNCHANGED <<cwd, files, remote, stores, last, streak, probe, tbl, mat, conv, job, lim>>

RemoveMapping(p) ==
    /\ sm.op = "store"
    /\ sm' = [sm EXCEPT !.store = remove_mapping(sm.store, p),
                        !.call = [name |-> "remove", key |-> p,
                                  arg |-> <<>>, ok |-> TRUE]]
    /\ UNCHANGED <<cwd, files, remote, stores, last, streak, probe, tbl, mat, conv, job, lim>>

NextStore ==
    \/ \E m \in NewMappings : AddMapping(m)
    \/ \E p \in PathStrs, updates \in Updates : UpdateMapping(p, updates)
    \/ \E p \in PathStrs : RemoveMapping(p)

SpecStore == InitStore /\ [][NextStore]_vars

(***************************************************************************)
(* Properties of the state manager's mutations (under SpecStore).          *)
(***************************************************************************)
StoreKey(p) == normalize_path(sm.store.root, p)

WithKey(mem, key) == SelectSeq(mem, LAMBDA x : x.local_path = key)

WithoutKey(mem, key) == SelectSeq(mem, LAMBDA x : x.local_path # key)

\* add_mapping leaves exactly one entry for the key, the new mapping, and
\* the entries of the other keys as they were.
AddReplaces ==
    sm'.call.name = "add" =>
        LET key == StoreKey(sm'.call.key)
            now == Held(sm'.store)
        IN /\ WithKey(now.mem, key) =
                 <<[sm'.call.arg EXCEPT !.local_path = key]>>
           /\ WithoutKey(now.mem, key) = WithoutKey(Held(sm.store).mem, key)
           /\ now.disk = now.mem

\* update_mapping of an absent key fails and changes nothing; of a present
\* key it changes the named fields of the first entry of that key only.
UpdateMerges ==
    sm'.call.name = "update" =>
        LET key == StoreKey(sm'.call.key)
            was == Held(sm.store)
            now == Held(sm'.store)
            i == FirstIndex(was.mem, "local_path", key)
        IN IF WithKey(was.mem, key) = <<>>
           THEN ~sm'.call.ok /\ now = was
           ELSE /\ sm'.call.ok
                /\ Len(now.mem) = Len(was.mem)
                /\ \A j \in 1..Len(was.mem) : j # i => now.mem[j] = was.mem[j]
                /\ \A f \in DOMAIN was.mem[i] :
                      now.mem[i][f] = IF f \in DOMAIN sm'.call.arg
                                      THEN sm'.call.arg[f] ELSE was.mem[i][f]
                /\ now.disk = now.mem

\* remove_mapping of an absent key leaves the mappings as they were.
RemoveAbsentKeeps ==
    (sm'.call.name = "remove"
        /\ WithKey(Held(sm.store).mem, StoreKey(sm'.call.key)) = <<>>)
        => Held(sm'.store).mem = Held(sm.store).mem

\* C13: add_mapping for a key already present replaces that entry, leaving
\* exactly one entry for the key, equal to the new mapping, and all other
\* entries untouched; update_mapping for an absent key fails with KeyError
\* and leaves the in-memory and persisted state unchanged, and for a
\* present key changes only the named fields of that one entry;
\* remove_mapping for an absent key leaves the mappings unchanged.
C13_StoreMutations ==
    [][AddReplaces /\ UpdateMerges /\ RemoveAbsentKeeps]_vars

\* add_mapping has replaced the entry of a key that was present with a
\* different mapping, between two entries of other keys.
C13_Witness ==
    /\ sm.op = "store"
    /\ sm.call.name = "add"
    /\ sm.store.root = ProjectRoot
    /\ sm.call.key = ProjFile
    /\ Len(sm.store.mem) = 3
    /\ sm.store.mem[3] = Mapping(RelPath, "d2", NoHash, 0)
    /\ sm.store.mem[1].local_path = HomeFile
    /\ sm.store.mem[1].remote_revision_at_sync = 1

EngineStoresKeyedUniquely ==
    \A sid \in StoreIds :
       LET mem == Held(stores[sid]).mem
       IN \A i, j \in 1..Len(mem) :
             normalize_path(stores[sid].root, mem[i].local_path)
                 = normalize_path(stores[sid].root, mem[j].local_path)
                 => i = j

(***************************************************************************)
(* Inline codec (converter/text_elements.py).  An inline string is a       *)
(* sequence of characters; a TextElement is a text_run with its content    *)
(* and its text_element_style.                                             *)
(***************************************************************************)

MaxInlineLen == 5

\* The backquote character (a string of this notation cannot hold it).
Backtick == "bq"

InlineChars == {"*", "a", "~", Backtick}

\* "**bold *and* more**"
BoldAndMore ==
    <<"*", "*", "b", "o", "l", "d", " ", "*", "a", "n", "d", "*", " ",
      "m", "o", "r", "e", "*", "*">>

\* "**bold *and italic***"
BoldAndItalic ==
    <<"*", "*", "b", "o", "l", "d", " ", "*", "a", "n", "d", " ",
      "i", "t", "a", "l", "i", "c", "*", "*", "*">>

\* "[*a*](u)", "***a***", "~~**a**~~" and "x `a` y"
ExampleTexts ==
    {BoldAndMore, BoldAndItalic,
     <<"[", "*", "a", "*", "]", "(", "u", ")">>,
     <<"*", "*", "*", "a", "*", "*", "*">>,
     <<"~", "~", "*", "*", "a", "*", "*", "~", "~">>,
     <<"x", " ", Backtick, "a", Backtick, " ", "y">>}

InlineTexts ==
    UNION {[1..n -> InlineChars] : n \in 0..MaxInlineLen} \cup ExampleTexts

NoLink == <<>>

make_text_element(content, inline_code) ==
    [text_run |->
        [content |-> content,
         text_element_style |->
            [bold |-> FALSE, italic |-> FALSE, strikethrough |-> FALSE,
             inline_code |-> inline_code, link |-> NoLink]]]

\* A merge that replaces the element's style by the given flags.
merge_style_replacing(element, bold, italic, strikethrough, link_url) ==
    [element EXCEPT !.text_run.text_element_style =
        [bold |-> bold, italic |-> italic, strikethrough |-> strikethrough,
         inline_code |-> @.inline_code, link |-> link_url]]

merge_style(element, bold, italic, strikethrough, link_url) ==
    [element EXCEPT !.text_run.text_element_style =
        [bold |-> @.bold \/ bold,
         italic |-> @.italic \/ italic,
         strikethrough |-> @.strikethrough \/ strikethrough,
         inline_code |-> @.inline_code,
         link |-> IF link_url # NoLink THEN link_url ELSE @.link]]

\* The literal lit stands in text at position pos.
StartsWith(text, pos, lit) ==
    /\ pos + Len(lit) - 1 <= Len(text)
    /\ \A i \in 1..Len(lit) : text[pos + i - 1] = lit[i]

\* A lazy quantifier followed by a literal: the length of the shortest run
\* of at least `least` characters from `from`, none of them in excl, that
\* the literal close follows; -1 when there is none.
LazyInner(text, from, least, excl, close) ==
    LET fits == {n \in least..(Len(text) - from + 1) :
                    /\ \A i \in 0..(n - 1) : text[from + i] \notin excl
                    /\ StartsWith(text, from + n, close)}
    IN IF fits = {} THEN -1 ELSE CHOOSE n \in fits : \A k \in fits : n <= k

NoMatch == [kind |-> "none", inner |-> <<>>, url |-> NoLink, end |-> 0]

\* One alternative of the pattern: open, a lazy inner group, close.
Delimited(text, pos, kind, open, excl, close) ==
    IF ~StartsWith(text, pos, open) THEN NoMatch
    ELSE LET from == pos + Len(open)
             n == LazyInner(text, from, 1, excl, close)
         IN IF n < 0 THEN NoMatch
            ELSE [kind |-> kind, inner |-> SubSeq(text, from, from + n - 1),
                  url |-> NoLink, end |-> from + n + Len(close)]

\* The link alternative: [text](url).
LinkAt(text, pos) ==
    IF ~StartsWith(text, pos, <<"[">>) THEN NoMatch
    ELSE LET n == LazyInner(text, pos + 1, 0, {"]"}, <<"]", "(">>)
             from == pos + 1 + n + 2
             u == LazyInner(text, from, 1, {")"}, <<")">>)
         IN IF n < 0 \/ u < 0 THEN NoMatch
            ELSE [kind |-> "link", inner |-> SubSeq(text, pos + 1, pos + n),
                  url |-> SubSeq(text, from, from + u - 1),
                  end |-> from + u + 1]

\* _INLINE_PATTERN tried at one position: the first alternative, in the
\* pattern's order, that matches there.
MatchAt(text, pos) ==
    LET bold_italic == Delimited(text, pos, "bold_italic",
                                 <<"*", "*", "*">>, {"\n"}, <<"*", "*", "*">>)
        bold == Delimited(text, pos, "bold", <<"*", "*">>, {"\n"}, <<"*", "*">>)
        italic == Delimited(text, pos, "italic", <<"*">>, {"\n"}, <<"*">>)
        strikethrough == Delimited(text, pos, "strikethrough",
                                   <<"~", "~">>, {"\n"}, <<"~", "~">>)
        inline_code == Delimited(text, pos, "inline_code",
                                 <<Backtick>>, {Backtick}, <<Backtick>>)
    IN IF bold_italic.kind # "none" THEN bold_italic
       ELSE IF bold.kind # "none" THEN bold
       ELSE IF italic.kind # "none" THEN italic
       ELSE IF strikethrough.kind # "none" THEN strikethrough
       ELSE IF inline_code.kind # "none" THEN inline_code
       ELSE LinkAt(text, pos)

RECURSIVE parse_inline_markdown(_)

ensure_elements(text) ==
    LET result == parse_inline_markdown(text)
    IN IF result = <<>> THEN <<make_text_element(text, FALSE)>> ELSE result

\* The elements one match contributes.
MatchElements(m) ==
    IF m.kind = "inline_code" THEN <<make_text_element(m.inner, TRUE)>>
    ELSE LET children == ensure_elements(m.inner)
         IN [i \in 1..Len(children) |->
                merge_style(children[i],
                            m.kind \in {"bold_italic", "bold"},
                            m.kind \in {"bold_italic", "italic"},
                            m.kind = "strikethrough",
                            m.url)]

\* The loop over finditer: pos is the scan position, last_end the first
\* position no match has consumed.
RECURSIVE finditer_loop(_, _, _, _)

\* The body of the loop for the match m found at pos.
finditer_body(text, pos, last_end, elements, m) ==
    IF m.kind = "none"
    THEN finditer_loop(text, pos + 1, last_end, elements)
    ELSE finditer_loop(text, m.end, m.end,
                       elements
                       \o (IF pos > last_end
                           THEN <<make_text_element(
                                     SubSeq(text, last_end, pos - 1), FALSE)>>
                           ELSE <<>>)
                       \o MatchElements(m))

finditer_loop(text, pos, last_end, elements) ==
    IF pos > Len(text) THEN [elements |-> elements, last_end |-> last_end]
    ELSE finditer_body(text, pos, last_end, elements, MatchAt(text, pos))

parse_inline_markdown(text) ==
    IF text = <<>> THEN <<>>
    ELSE LET out == finditer_loop(text, 1, 1, <<>>)
             trailing == IF out.last_end <= Len(text)
                         THEN <<make_text_element(
                                   SubSeq(text, out.last_end, Len(text)), FALSE)>>
                         ELSE <<>>
             elements == out.elements \o trailing
         IN IF elements = <<>> THEN <<make_text_element(text, FALSE)>>
            ELSE elements

maybe_link(content, style) ==
    IF style.link # NoLink
    THEN <<"[">> \o content \o <<"]", "(">> \o style.link \o <<")">>
    ELSE content

apply_inline_formatting(content, style) ==
    IF style.inline_code THEN maybe_link(<<Backtick>> \o content \o <<Backtick>>, style)
    ELSE LET emphasised ==
                 IF style.bold /\ style.italic
                 THEN <<"*", "*", "*">> \o content \o <<"*", "*", "*">>
                 ELSE IF style.bold
                 THEN <<"*", "*">> \o content \o <<"*", "*">>
                 ELSE IF style.italic
                 THEN <<"*">> \o content \o <<"*">>
                 ELSE content
             struck ==
                 IF style.strikethrough
                 THEN <<"~", "~">> \o emphasised \o <<"~", "~">>
                 ELSE emphasised
         IN maybe_link(struck, style)

\* Elements here are text runs; a run without content contributes nothing.
RECURSIVE elements_to_markdown(_)
elements_to_markdown(elements) ==
    IF elements = <<>> THEN <<>>
    ELSE LET text_run == Head(elements).text_run
         IN (IF text_run.content = <<>> THEN <<>>
             ELSE apply_inline_formatting(text_run.content,
                                          text_run.text_element_style))
            \o elements_to_markdown(Tail(elements))

\* The engine and its stores at rest while a converter or a hash function
\* is exercised on its own.
EngineAtRest ==
    /\ cwd = HomeDir
    /\ files = [abs \in AbsPaths |-> "x\n"]
    /\ remote = [d \in Docs |-> [exists |-> FALSE, revision_id |-> 0, body |-> "empty"]]
    /\ stores = [sid \in StoreIds |->
                    [root |-> IF sid = "global" THEN NoRoot ELSE ProjectRoot,
                     exists |-> FALSE, cached |-> sid = "global",
                     loaded |-> FALSE, mem |-> <<>>, disk |-> <<>>]]
    /\ last = NoLast
    /\ streak = NoStreak
    /\ probe = NoProbe
    /\ tbl = NoTable
    /\ mat = Idle
    /\ sm = Idle
    /\ job = Idle
    /\ lim = Idle

InitInline ==
    /\ EngineAtRest
    /\ \E text \in InlineTexts :
          conv = [op |-> "inline", phase |-> "input", text |-> text,
                  elements |-> <<>>, markdown |-> <<>>]

ParseInline ==
    /\ conv.op = "inline"
    /\ conv.phase = "input"
    /\ conv' = [conv EXCEPT !.phase = "parsed",
                            !.elements = parse_inline_markdown(conv.text)]
    /\ UNCHANGED <<cwd, files, remote, stores, last, streak, probe, tbl, mat, sm, job, lim>>

EncodeInline ==
    /\ conv.op = "inline"
    /\ conv.phase = "parsed"
    /\ conv' = [conv EXCEPT !.phase = "encoded",
                            !.markdown = elements_to_markdown(conv.elements)]
    /\ UNCHANGED <<cwd, files, remote, stores, last, streak, probe, tbl, mat, sm, job, lim>>

NextInline ==
    \/ ParseInline
    \/ EncodeInline

SpecInline == InitInline /\ [][NextInline]_vars

StyleOf(element) == element.text_run.text_element_style

\* The flags the pattern's alternative `kind` stands for.
FlagsOf(kind) ==
    [bold |-> kind \in {"bold_italic", "bold"},
     italic |-> kind \in {"bold_italic", "italic"},
     strikethrough |-> kind = "strikethrough"]

\* C17: parse_inline_markdown("**bold *and* more**") yields elements that
\* are all bold, the middle one italic as well; and whenever one match of
\* an emphasis or strikethrough alternative spans the whole text, the
\* result is the recursive decoding of its inner text with the outer flags
\* set on every element and the inner flags kept.
C17_OuterStyleOnEveryInner ==
    (conv.op = "inline" /\ conv.phase # "input") =>
        LET els == conv.elements
            m == MatchAt(conv.text, 1)
        IN /\ conv.text = BoldAndMore =>
                 /\ Len(els) = 3
                 /\ \A i \in 1..3 : StyleOf(els[i]).bold
                 /\ StyleOf(els[2]).italic
                 /\ ~StyleOf(els[1]).italic /\ ~StyleOf(els[3]).italic
           /\ (/\ conv.text # <<>>
               /\ m.kind \in {"bold_italic", "bold", "italic", "strikethrough"}
               /\ m.end = Len(conv.text) + 1) =>
                 LET inner == ensure_elements(m.inner)
                 IN /\ Len(els) = Len(inner)
                    /\ \A i \in 1..Len(els) :
                          /\ els[i].text_run.content = inner[i].text_run.content
                          /\ \A f \in {"bold", "italic", "strikethrough"} :
                                StyleOf(els[i])[f]
                                    <=> (FlagsOf(m.kind)[f] \/ StyleOf(inner[i])[f])
                          /\ StyleOf(els[i]).inline_code
                                = StyleOf(inner[i]).inline_code

\* The nested example has been decoded: three elements, the middle one
\* bold and italic.
C17_Witness ==
    /\ conv.op = "inline"
    /\ conv.phase = "parsed"
    /\ conv.text = BoldAndMore
    /\ Len(conv.elements) = 3
    /\ conv.elements[2].text_run.content = <<"a", "n", "d">>
    /\ StyleOf(conv.elements[2]).bold
    /\ StyleOf(conv.elements[2]).italic

\* C18: decoding "**bold *and italic***" yields exactly two elements, one
\* with bold only and one with bold and italic.
C18_BoldAndItalicTwoElements ==
    (conv.op = "inline" /\ conv.phase # "input" /\ conv.text = BoldAndItalic) =>
        LET els == conv.elements
        IN /\ Len(els) = 2
           /\ \E i, j \in 1..2 :
                 /\ i # j
                 /\ StyleOf(els[i]).bold /\ ~StyleOf(els[i]).italic
                 /\ StyleOf(els[j]).bold /\ StyleOf(els[j]).italic

(***************************************************************************)
(* Content hash, character by character (sync/state.py).  A content is a   *)
(* sequence of characters; the file holds it as written, and               *)
(* Path.read_text opens the file with universal newlines.                  *)
(***************************************************************************)

MaxContentLen == 4

ContentChars == {"x", "\r", "\n"}

CharContents == UNION {[1..n -> ContentChars] : n \in 0..MaxContentLen}

\* str.replace(old, new): every non-overlapping occurrence, left to right.
RECURSIVE str_replace(_, _, _)
str_replace(s, old, new) ==
    IF Len(s) < Len(old) THEN s
    ELSE IF StartsWith(s, 1, old)
    THEN new \o str_replace(SubSeq(s, Len(old) + 1, Len(s)), old, new)
    ELSE <<Head(s)>> \o str_replace(Tail(s), old, new)

\* A normalization that rewrites "\r\n" only.
normalize_crlf_only(content) ==
    str_replace(content, <<"\r", "\n">>, <<"\n">>)

\* content.replace("\r\n", "\n").replace("\r", "\n")
normalize_line_endings(content) ==
    str_replace(str_replace(content, <<"\r", "\n">>, <<"\n">>),
                <<"\r">>, <<"\n">>)

\* SHA-256 as an injective digest of the hashed text.
sha256_hexdigest(text) == <<"sha256", text>>

compute_content_hash_chars(content) ==
    sha256_hexdigest(normalize_line_endings(content))

\* Path.read_text in text mode: "\r\n" and a lone "\r" are read as "\n".
RECURSIVE read_text(_)
read_text(written) ==
    IF written = <<>> THEN <<>>
    ELSE IF StartsWith(written, 1, <<"\r", "\n">>)
    THEN <<"\n">> \o read_text(SubSeq(written, 3, Len(written)))
    ELSE IF Head(written) = "\r" THEN <<"\n">> \o read_text(Tail(written))
    ELSE <<Head(written)>> \o read_text(Tail(written))

compute_file_hash_chars(written) ==
    sha256_hexdigest(normalize_line_endings(read_text(written)))

\* SyncDiffer.has_local_changes for an existing file and a recorded hash.
has_local_changes_chars(written, local_hash_at_sync) ==
    compute_file_hash_chars(written) # local_hash_at_sync

HashRecord(phase, synced, written) ==
    [op |-> "hash", phase |-> phase, synced |-> synced, written |-> written,
     local_hash_at_sync |-> compute_file_hash_chars(synced),
     synced_content_hash |-> compute_content_hash_chars(synced),
     content_hash |-> compute_content_hash_chars(written),
     file_hash |-> compute_file_hash_chars(written),
     changed |-> has_local_changes_chars(written,
                                         compute_file_hash_chars(synced))]

\* The file has just been synced: its hash is the recorded one.
InitHash ==
    /\ EngineAtRest
    /\ \E synced \in CharContents : conv = HashRecord("synced", synced, synced)

\* The user rewrites the synced file; the hashes are taken again.
RewriteFile(written) ==
    /\ conv.op = "hash"
    /\ conv.phase = "synced"
    /\ conv' = HashRecord("rewritten", conv.synced, written)
    /\ UNCHANGED <<cwd, files, remote, stores, last, streak, probe, tbl, mat, sm, job, lim>>

\* The next sync records the hash of the file as it is now.
SyncAgain ==
    /\ conv.op = "hash"
    /\ conv.phase = "rewritten"
    /\ conv' = HashRecord("synced", conv.written, conv.written)
    /\ UNCHANGED <<cwd, files, remote, stores, last, streak, probe, tbl, mat, sm, job, lim>>

NextHash ==
    \/ \E written \in CharContents : RewriteFile(written)
    \/ SyncAgain

SpecHash == InitHash /\ [][NextHash]_vars

\* The content with each of its line endings ("\r\n", a lone "\r" or "\n")
\* written as "\n".
RECURSIVE WithUnixEndings(_)
WithUnixEndings(s) ==
    IF s = <<>> THEN <<>>
    ELSE IF Len(s) >= 2 /\ s[1] = "\r" /\ s[2] = "\n"
    THEN <<"\n">> \o WithUnixEndings(SubSeq(s, 3, Len(s)))
    ELSE <<IF s[1] = "\r" THEN "\n" ELSE s[1]>> \o WithUnixEndings(Tail(s))

\* C19: when the content written to the file and the content last synced
\* are equal after every "\r\n" and every lone "\r" is replaced by "\n",
\* compute_content_hash returns one digest for both, compute_file_hash
\* returns one digest for both, and has_local_changes reports no change.
C19_HashIgnoresLineEndings ==
    (conv.op = "hash"
        /\ WithUnixEndings(conv.written) = WithUnixEndings(conv.synced)) =>
            /\ conv.content_hash = conv.synced_content_hash
            /\ conv.file_hash = conv.local_hash_at_sync
            /\ ~conv.changed

\* A file synced with "\n" endings has been rewritten with "\r\n" and a
\* lone "\r"; its hashes are the recorded ones.
C19_Witness ==
    /\ conv.op = "hash"
    /\ conv.phase = "rewritten"
    /\ conv.synced = <<"x", "\n", "\n">>
    /\ conv.written = <<"x", "\r", "\n", "\r">>
    /\ conv.content_hash = conv.synced_content_hash
    /\ ~conv.changed

(***************************************************************************)
(* Rendering (converter/lark_to_markdown.py).  A block of the flat list    *)
(* carries its block_id, block_type, parent_id, the ids of its children    *)
(* and its body.  A rendered line is its quote prefixes, its indentation,  *)
(* its marker and its inline text.                                         *)
(***************************************************************************)

PageId == "page"

FlatBlock(block_id, block_type, parent_id, children, body) ==
    [block_id |-> block_id, block_type |-> block_type,
     parent_id |-> parent_id, children |-> children, body |-> body]

\* BlockType.heading_level: headings 1 to 9, none for another type.
HeadingLevels ==
    [heading1 |-> 1, heading2 |-> 2, heading3 |-> 3, heading4 |-> 4,
     heading5 |-> 5, heading6 |-> 6, heading7 |-> 7, heading8 |-> 8,
     heading9 |-> 9]

heading_level(bt) == IF bt \in DOMAIN HeadingLevels THEN HeadingLevels[bt] ELSE 0

\* "#" * min(level, 6), with the space that follows.
HeadingMarker == <<"# ", "## ", "### ", "#### ", "##### ", "###### ">>

\* The marker of a code fence, three backquotes.
CodeFence == "fence"

\* _LANG_MAP, the entries used here.
LangMap == [n \in {1, 7, 49, 60} |->
               CASE n = 1 -> "plaintext" [] n = 7 -> "bash"
                 [] n = 49 -> "python" [] n = 60 -> "shell"]

CalloutLabelMap ==
    [bulb |-> "TIP", warning |-> "WARNING", red_circle |-> "CAUTION",
     info |-> "NOTE", check |-> "NOTE", star |-> "IMPORTANT"]

Line(indent, marker, md) ==
    [quote |-> 0, indent |-> indent, marker |-> marker, md |-> md]

BlankLine == Line(0, "", <<>>)

\* f"> {line}" if line else ">"
Quoted(line) == [line EXCEPT !.quote = @ + 1]

build_tree(blocks) ==
    [id \in {blocks[i].block_id : i \in 1..Len(blocks)} |->
        blocks[CHOOSE i \in 1..Len(blocks) :
                  /\ blocks[i].block_id = id
                  /\ \A j \in (i + 1)..Len(blocks) : blocks[j].block_id # id]]

RECURSIVE Orphans(_, _)
Orphans(blocks, tree) ==
    IF blocks = <<>> THEN <<>>
    ELSE (IF Head(blocks).parent_id \notin DOMAIN tree
          THEN <<Head(blocks).block_id>> ELSE <<>>)
         \o Orphans(Tail(blocks), tree)

root_children(blocks, tree) ==
    LET pages == {i \in 1..Len(blocks) : blocks[i].block_type = "page"}
    IN IF pages # {}
       THEN blocks[CHOOSE i \in pages : \A j \in pages : i <= j].children
       ELSE Orphans(blocks, tree)

\* " ".join(parts)
RECURSIVE JoinSpace(_)
JoinSpace(parts) ==
    IF parts = <<>> THEN <<>>
    ELSE IF Len(parts) = 1 THEN parts[1]
    ELSE parts[1] \o <<" ">> \o JoinSpace(Tail(parts))

RECURSIVE CellParts(_, _)
CellParts(tree, refs) ==
    IF refs = <<>> THEN <<>>
    ELSE LET ref == Head(refs)
             rest == CellParts(tree, Tail(refs))
         IN IF ref \notin DOMAIN tree THEN rest
            ELSE IF tree[ref].block_type
                        \in {"text", "heading1", "heading2", "heading3"}
                    /\ "elements" \in DOMAIN tree[ref].body
            THEN <<elements_to_markdown(tree[ref].body.elements)>> \o rest
            ELSE rest

render_table_cell(tree, cell_block) ==
    LET joined == JoinSpace(CellParts(tree, cell_block.children))
        escaped == [i \in 1..Len(joined) |->
                       IF joined[i] = "\n" THEN <<" ">>
                       ELSE IF joined[i] = "|" THEN <<"\\", "|">>
                       ELSE <<joined[i]>>]
    IN JoinRuns(escaped)

\* The cells read by _render_table, row by row.
TableCellIds(tree, block) ==
    LET prop == block.body.property
        n == Min(prop.row_size * prop.column_size, Len(block.children))
    IN SubSeq(block.children, 1, n)

render_table(tree, block, out) ==
    LET prop == block.body.property
        row_count == prop.row_size
        col_count == prop.column_size
        child_refs == block.children
        cell_text(idx) ==
            IF idx <= Len(child_refs) /\ child_refs[idx] \in DOMAIN tree
            THEN render_table_cell(tree, tree[child_refs[idx]])
            ELSE <<>>
        row(r) == [c \in 1..col_count |-> cell_text((r - 1) * col_count + c)]
    IN IF row_count = 0 \/ col_count = 0 THEN out
       ELSE [lines |-> out.lines
                        \o <<Line(0, "|", row(1)),
                             Line(0, "|---", [c \in 1..col_count |-> <<>>])>>
                        \o [r \in 1..(row_count - 1) |-> Line(0, "|", row(r + 1))]
                        \o <<BlankLine>>,
             visits |-> out.visits
                        \o SelectSeq(TableCellIds(tree, block),
                                     LAMBDA id : id \in DOMAIN tree)]

RECURSIVE render_block(_, _, _, _)
RECURSIVE render_each(_, _, _, _)

\* for child_id in _children(block): self._render_block(...)
render_each(tree, refs, out, depth) ==
    IF refs = <<>> THEN out
    ELSE render_each(tree, Tail(refs),
                     render_block(tree, Head(refs), out, depth), depth)

\* A handler that renders its own lines and no child.
render_leaf(out, lines) == [out EXCEPT !.lines = @ \o lines]

\* _render_bullet, _render_ordered, _render_todo: the item's line, then its
\* children one level deeper.
render_item(tree, block, out, depth, marker) ==
    render_each(tree, block.children,
                render_leaf(out, <<Line(2 * depth, marker,
                                        elements_to_markdown(block.body.elements))>>),
                depth + 1)

\* _render_quote_container and _render_callout: the children at depth 0 in
\* a scratch buffer, each of its lines prefixed.
render_quoting(tree, block, out, head_lines) ==
    LET child == render_each(tree, block.children,
                             [lines |-> <<>>, visits |-> out.visits], 0)
    IN [lines |-> out.lines \o head_lines
                   \o [i \in 1..Len(child.lines) |-> Quoted(child.lines[i])]
                   \o <<BlankLine>>,
        visits |-> child.visits]

render_block(tree, block_ref, out, depth) ==
    IF block_ref \notin DOMAIN tree THEN out
    ELSE
      LET block == tree[block_ref]
          bt == block.block_type
          seen == [out EXCEPT !.visits = Append(@, block.block_id)]
      IN CASE bt = "page" -> render_each(tree, block.children, seen, depth)
           [] bt = "text" ->
                render_leaf(seen, <<Line(0, "", elements_to_markdown(
                                                   block.body.elements)),
                                    BlankLine>>)
           [] heading_level(bt) > 0 ->
                render_leaf(seen, <<Line(0, HeadingMarker[Min(heading_level(bt), 6)],
                                         elements_to_markdown(block.body.elements)),
                                    BlankLine>>)
           [] bt = "bullet" -> render_item(tree, block, seen, depth, "- ")
           [] bt = "ordered" -> render_item(tree, block, seen, depth, "1. ")
           [] bt = "code" ->
                render_leaf(seen,
                    <<Line(0, CodeFence,
                           <<IF block.body.style.language \in DOMAIN LangMap
                             THEN LangMap[block.body.style.language]
                             ELSE IF block.body.style.language \in Int THEN ""
                             ELSE block.body.style.language>>),
                      Line(0, "", elements_to_markdown(block.body.elements)),
                      Line(0, CodeFence, <<>>),
                      BlankLine>>)
           [] bt = "quote" ->
                render_leaf(seen, <<Quoted(Line(0, "", elements_to_markdown(
                                                          block.body.elements))),
                                    BlankLine>>)
           [] bt = "quote_container" -> render_quoting(tree, block, seen, <<>>)
           [] bt = "divider" -> render_leaf(seen, <<Line(0, "---", <<>>), BlankLine>>)
           [] bt = "todo" ->
                render_item(tree, block, seen, depth,
                            IF block.body.style.done THEN "- [x] " ELSE "- [ ] ")
           [] bt = "table" -> render_table(tree, block, seen)
           [] bt = "image" ->
                render_leaf(seen, <<Line(0, "![", <<block.body.alt, block.body.token>>),
                                    BlankLine>>)
           [] bt = "callout" ->
                render_quoting(tree, block, seen,
                    <<Quoted(Line(0, "[!", <<IF block.body.emoji_id
                                                  \in DOMAIN CalloutLabelMap
                                              THEN CalloutLabelMap[block.body.emoji_id]
                                              ELSE "NOTE">>))>>)
           [] OTHER ->
                render_leaf(seen, <<Line(0, "<!-- lark", <<bt, block.block_id>>),
                                    BlankLine>>)

\* LarkToMarkdownConverter.convert, up to the joining of the lines.
lark_to_markdown(blocks) ==
    LET tree == build_tree(blocks)
    IN render_each(tree, root_children(blocks, tree),
                   [lines |-> <<>>, visits |-> <<>>], 0)

\* The kinds of block b: one per handler of _HANDLERS, and one kind without
\* a handler.
RenderKinds ==
    {"text", "heading1", "bullet", "ordered", "code", "quote",
     "quote_container", "divider", "todo", "table", "image", "callout", "grid"}

PlainElements(content) == <<make_text_element(content, FALSE)>>

\* A body of the kind's shape.
BodyOf(bt) ==
    CASE bt = "code" ->
            [elements |-> PlainElements(<<"x">>), style |-> [language |-> 49]]
      [] bt = "todo" ->
            [elements |-> PlainElements(<<"x">>), style |-> [done |-> FALSE]]
      [] bt = "table" -> [property |-> [row_size |-> 1, column_size |-> 1]]
      [] bt = "image" -> [token |-> <<"u">>, alt |-> <<"x">>]
      [] bt = "callout" -> [emoji_id |-> "bulb"]
      [] bt \in {"quote_container", "divider", "grid", "table_cell", "page"} ->
            [none |-> TRUE]
      [] OTHER -> [elements |-> PlainElements(<<"x">>)]

\* The list of the claim: a page with children [a, b], b with children [c].
PageAB(a_kind, b_kind, c_kind) ==
    <<FlatBlock(PageId, "page", "", <<"a", "b">>, BodyOf("page")),
      FlatBlock("a", a_kind, PageId, <<>>, BodyOf(a_kind)),
      FlatBlock("b", b_kind, PageId, <<"c">>, BodyOf(b_kind)),
      FlatBlock("c", c_kind, "b", <<>>, BodyOf(c_kind))>>

\* The orders in which a list of n blocks can be stored.
StorageOrders(n) == {p \in [1..n -> 1..n] : \A i, j \in 1..n : p[i] = p[j] => i = j}

InitRender ==
    /\ EngineAtRest
    /\ \E a_kind \in {"text", "bullet"}, b_kind \in RenderKinds,
          c_kind \in {"text", "bullet", "table_cell"}, p \in StorageOrders(4) :
          conv = [op |-> "render", phase |-> "input",
                  blocks |-> [i \in 1..4 |-> PageAB(a_kind, b_kind, c_kind)[p[i]]],
                  out |-> [lines |-> <<>>, visits |-> <<>>]]

RenderBlocks ==
    /\ conv.op = "render"
    /\ conv.phase = "input"
    /\ conv' = [conv EXCEPT !.phase = "rendered",
                            !.out = lark_to_markdown(conv.blocks)]
    /\ UNCHANGED <<cwd, files, remote, stores, last, streak, probe, tbl, mat, sm, job, lim>>

NextRender == RenderBlocks

SpecRender == InitRender /\ [][NextRender]_vars

\* The kind of block b in the list being rendered.
KindOfB ==
    conv.blocks[CHOOSE i \in 1..Len(conv.blocks) :
                   conv.blocks[i].block_id = "b"].block_type

\* C15: for a flat list with one page block whose children are [a, b],
\* where b's children are [c], rendering visits a, then b, then c, in every
\* storage order of the list and for every kind of block b.
C15_RenderVisitsABC ==
    (conv.op = "render" /\ conv.phase = "rendered") =>
        conv.out.visits = <<"a", "b", "c">>

\* When b is a list item, a todo, a quote container, a callout or a table,
\* rendering visits a, b, c in every storage order.
ContainersVisitInOrder ==
    (conv.op = "render" /\ conv.phase = "rendered"
        /\ KindOfB \in {"bullet", "ordered", "todo", "quote_container",
                        "callout", "table"}) =>
            conv.out.visits = <<"a", "b", "c">>

\* When b has a handler that reads no children, c is never visited.
LeafHandlersSkipChildren ==
    (conv.op = "render" /\ conv.phase = "rendered"
        /\ KindOfB \in {"text", "heading1", "code", "quote", "divider",
                        "image", "grid"}) =>
            conv.out.visits = <<"a", "b">>

(***************************************************************************)
(* Parsing (converter/markdown_to_lark.py) and the round trip.  A Markdown *)
(* document is given by its elements; MarkdownIt.parse turns it into the   *)
(* token stream the converter consumes.                                    *)
(***************************************************************************)

MaxDocElems == 2

Heading(level, text) == [kind |-> "heading", level |-> level, text |-> text]
Paragraph(text) == [kind |-> "paragraph", text |-> text]
ListItem(text, sub) == [text |-> text, sub |-> sub]
ListOf(ordered, items) == [kind |-> "list", ordered |-> ordered, items |-> items]
Fence(info, code) == [kind |-> "fence", info |-> info, code |-> code]
Blockquote(inner) == [kind |-> "blockquote", inner |-> inner]
Image(alt, src) == [kind |-> "image", alt |-> alt, src |-> src]
Rule == [kind |-> "hr"]
Table(rows) == [kind |-> "table", rows |-> rows]

\* "a **b** *c*"
MixedInline == <<"a", " ", "*", "*", "b", "*", "*", " ", "*", "c", "*">>

\* The elements documents are made of: headings, paragraphs with inline
\* styling, flat and nested bullet and ordered lists, a fenced code block
\* with a language alias, a blockquote, a table, an image and a rule.
DocElements ==
    {Heading(1, <<"a">>), Heading(2, <<"*", "a", "*">>),
     Paragraph(<<"a">>), Paragraph(MixedInline),
     ListOf(FALSE, <<ListItem(<<"a">>, <<>>), ListItem(<<"b">>, <<>>)>>),
     ListOf(FALSE, <<ListItem(<<"a">>,
                              <<ListOf(FALSE, <<ListItem(<<"b">>, <<>>)>>)>>)>>),
     ListOf(TRUE, <<ListItem(<<"a">>,
                             <<ListOf(TRUE, <<ListItem(<<"b">>, <<>>)>>)>>),
                    ListItem(<<"c">>, <<>>)>>),
     ListOf(TRUE, <<ListItem(<<"a">>, <<>>)>>),
     Fence("py", <<"x">>),
     Blockquote(<<Paragraph(<<"a">>)>>),
     Table(<<<< <<"a">>, <<"b">> >>, << <<"*", "*", "c", "*", "*">>, <<"d">> >>>>),
     Image(<<"a">>, <<"u">>),
     Rule}

Documents == UNION {[1..n -> DocElements] : n \in 1..MaxDocElems}

Tok(type) ==
    [type |-> type, tag |-> "", content |-> <<>>, info |-> "", children |-> <<>>]

TextChild == [type |-> "text", src |-> <<>>, alt |-> <<>>]

InlineTok(content) ==
    [Tok("inline") EXCEPT !.content = content,
                          !.children = IF content = <<>> THEN <<>>
                                       ELSE <<TextChild>>]

HTags == <<"h1", "h2", "h3", "h4", "h5", "h6">>

RECURSIVE TokensOf(_)
RECURSIVE ItemTokens(_)

\* The tokens of the items of one list.
ItemTokens(items) ==
    IF items = <<>> THEN <<>>
    ELSE <<Tok("list_item_open"), Tok("paragraph_open"),
           InlineTok(Head(items).text), Tok("paragraph_close")>>
         \o TokensOf(Head(items).sub)
         \o <<Tok("list_item_close")>>
         \o ItemTokens(Tail(items))

RECURSIVE CellTokens(_, _)
CellTokens(row, cell) ==
    IF row = <<>> THEN <<>>
    ELSE <<Tok(cell \o "_open"), InlineTok(Head(row)), Tok(cell \o "_close")>>
         \o CellTokens(Tail(row), cell)

RECURSIVE BodyRowTokens(_)
BodyRowTokens(rows) ==
    IF rows = <<>> THEN <<>>
    ELSE <<Tok("tr_open")>> \o CellTokens(Head(rows), "td") \o <<Tok("tr_close")>>
         \o BodyRowTokens(Tail(rows))

\* MarkdownIt("commonmark").enable("table").parse: the block tokens of a
\* document.
TokensOf(elements) ==
    IF elements = <<>> THEN <<>>
    ELSE
      LET e == Head(elements)
          toks ==
            CASE e.kind = "heading" ->
                   <<[Tok("heading_open") EXCEPT !.tag = HTags[e.level]],
                     InlineTok(e.text), Tok("heading_close")>>
              [] e.kind = "paragraph" ->
                   <<Tok("paragraph_open"), InlineTok(e.text),
                     Tok("paragraph_close")>>
              [] e.kind = "list" ->
                   <<Tok(IF e.ordered THEN "ordered_list_open"
                         ELSE "bullet_list_open")>>
                   \o ItemTokens(e.items)
                   \o <<Tok(IF e.ordered THEN "ordered_list_close"
                            ELSE "bullet_list_close")>>
              [] e.kind = "fence" ->
                   <<[Tok("fence") EXCEPT !.info = e.info,
                                          !.content = e.code \o <<"\n">>]>>
              [] e.kind = "blockquote" ->
                   <<Tok("blockquote_open")>> \o TokensOf(e.inner)
                   \o <<Tok("blockquote_close")>>
              [] e.kind = "image" ->
                   <<Tok("paragraph_open"),
                     [Tok("inline") EXCEPT
                        !.content = <<"!", "[">> \o e.alt \o <<"]", "(">>
                                    \o e.src \o <<")">>,
                        !.children = <<[type |-> "image", src |-> e.src,
                                        alt |-> e.alt]>>],
                     Tok("paragraph_close")>>
              [] e.kind = "hr" -> <<Tok("hr")>>
              [] e.kind = "table" ->
                   <<Tok("table_open"), Tok("thead_open"), Tok("tr_open")>>
                   \o CellTokens(Head(e.rows), "th")
                   \o <<Tok("tr_close"), Tok("thead_close")>>
                   \o (IF Len(e.rows) > 1
                       THEN <<Tok("tbody_open")>> \o BodyRowTokens(Tail(e.rows))
                            \o <<Tok("tbody_close")>>
                       ELSE <<>>)
                   \o <<Tok("table_close")>>
      IN toks \o TokensOf(Tail(elements))

\* str.strip() over spaces and newlines.
RECURSIVE LStrip(_)
LStrip(s) ==
    IF s # <<>> /\ Head(s) \in {" ", "\n"} THEN LStrip(Tail(s)) ELSE s

RECURSIVE RStrip(_)
RStrip(s) ==
    IF s # <<>> /\ s[Len(s)] \in {" ", "\n"}
    THEN RStrip(SubSeq(s, 1, Len(s) - 1)) ELSE s

Strip(s) == RStrip(LStrip(s))

NoBlock == [block_type |-> "none"]

TextBlockOf(elements) == [block_type |-> "text", body |-> [elements |-> elements]]

try_parse_todo(content) ==
    LET stripped == Strip(content)
        done == StartsWith(stripped, 1, <<"[", "x", "]", " ">>)
                   \/ StartsWith(stripped, 1, <<"[", "X", "]", " ">>)
    IN IF done \/ StartsWith(stripped, 1, <<"[", " ", "]", " ">>)
       THEN [block_type |-> "todo",
             body |-> [elements |-> parse_inline_markdown(
                                        SubSeq(stripped, 5, Len(stripped))),
                       style |-> [done |-> done]]]
       ELSE NoBlock

try_extract_image(inline_tok) ==
    LET image_children == SelectSeq(inline_tok.children,
                                    LAMBDA c : c.type = "image")
    IN IF Len(image_children) # 1 THEN NoBlock
       ELSE [block_type |-> "image",
             body |-> [token |-> image_children[1].src,
                       alt |-> IF image_children[1].alt # <<>>
                               THEN image_children[1].alt
                               ELSE <<"i", "m", "a", "g", "e">>]]

\* _REVERSE_LANG_MAP, the entries used here.
ReverseLangMap ==
    [plaintext |-> 1, bash |-> 7, sh |-> 7, python |-> 49, py |-> 49,
     shell |-> 60]

\* language.lower().strip() on the info strings used here.
LowerCase == [Py |-> "py", PY |-> "py", Python |-> "python"]

reverse_lang_lookup(language) ==
    IF language = "" THEN 1
    ELSE LET lower == IF language \in DOMAIN LowerCase
                      THEN LowerCase[language] ELSE language
         IN IF lower \in DOMAIN ReverseLangMap THEN ReverseLangMap[lower]
            ELSE lower

Advance(idx, blocks) == [idx |-> idx, blocks |-> blocks]

consume_heading(tokens, idx, blocks) ==
    LET level == CHOOSE n \in 1..Len(HTags) : HTags[n] = tokens[idx].tag
        elements == parse_inline_markdown(tokens[idx + 1].content)
    IN Advance(idx + 3,
               Append(blocks,
                      [block_type |-> CHOOSE bt \in DOMAIN HeadingLevels :
                                         HeadingLevels[bt] = level,
                       body |-> [elements |-> elements]]))

\* The first of the candidate blocks that is one.
FirstBlock(candidates) ==
    candidates[CHOOSE i \in 1..Len(candidates) :
                  /\ candidates[i] # NoBlock
                  /\ \A j \in 1..(i - 1) : candidates[j] = NoBlock]

\* An image-only paragraph is an image block, a checkbox paragraph a todo,
\* any other a text block; each takes three tokens.
consume_paragraph(tokens, idx, blocks) ==
    Advance(idx + 3,
            Append(blocks,
                   FirstBlock(<<IF tokens[idx + 1].children # <<>>
                                THEN try_extract_image(tokens[idx + 1])
                                ELSE NoBlock,
                                try_parse_todo(tokens[idx + 1].content),
                                TextBlockOf(parse_inline_markdown(
                                                tokens[idx + 1].content))>>)))

consume_code(tokens, idx, blocks) ==
    LET tok == tokens[idx]
        code_content == IF tok.content # <<>> /\ tok.content[Len(tok.content)] = "\n"
                        THEN SubSeq(tok.content, 1, Len(tok.content) - 1)
                        ELSE tok.content
    IN Advance(idx + 1,
               Append(blocks,
                      [block_type |-> "code",
                       body |-> [elements |-> <<make_text_element(code_content, FALSE)>>,
                                 style |-> [language |-> reverse_lang_lookup(tok.info),
                                            wrap |-> FALSE]]]))

consume_hr(tokens, idx, blocks) ==
    Advance(idx + 1, Append(blocks, [block_type |-> "divider", body |-> [none |-> TRUE]]))

consume_html_block(tokens, idx, blocks) ==
    LET content == Strip(tokens[idx].content)
    IN IF content # <<>>
       THEN Advance(idx + 1,
                    Append(blocks, TextBlockOf(<<make_text_element(content, FALSE)>>)))
       ELSE Advance(idx + 1, blocks)

\* The loop of _consume_table: the rows of cell contents.
RECURSIVE table_loop(_, _, _, _)
table_loop(tokens, idx, rows, current_row) ==
    IF idx > Len(tokens) \/ tokens[idx].type = "table_close"
    THEN [idx |-> idx + 1, rows |-> rows]
    ELSE LET type == tokens[idx].type
         IN IF type = "tr_open" THEN table_loop(tokens, idx + 1, rows, <<>>)
            ELSE IF type = "tr_close"
            THEN table_loop(tokens, idx + 1, Append(rows, current_row), current_row)
            ELSE IF type \in {"th_open", "td_open"}
            THEN table_loop(tokens, idx + 3, rows,
                            Append(current_row, tokens[idx + 1].content))
            ELSE table_loop(tokens, idx + 1, rows, current_row)

MaxLen(rows) ==
    CHOOSE n \in {Len(rows[i]) : i \in 1..Len(rows)} :
        \A i \in 1..Len(rows) : Len(rows[i]) <= n

\* The TABLE block of the rows, its cells row by row.
table_of_rows(rows) ==
    [block_type |-> "table",
     body |-> [property |-> [row_size |-> Len(rows),
                             column_size |-> MaxLen(rows)]],
     children |->
        [k \in 1..(Len(rows) * MaxLen(rows)) |->
            [block_type |-> "table_cell", body |-> [none |-> TRUE],
             children |->
                <<TextBlockOf(parse_inline_markdown(
                      IF ((k - 1) % MaxLen(rows)) + 1
                            <= Len(rows[((k - 1) \div MaxLen(rows)) + 1])
                      THEN rows[((k - 1) \div MaxLen(rows)) + 1]
                               [((k - 1) % MaxLen(rows)) + 1]
                      ELSE <<>>))>>]]]

table_after(blocks, out) ==
    IF out.rows = <<>> THEN Advance(out.idx, blocks)
    ELSE Advance(out.idx, Append(blocks, table_of_rows(out.rows)))

consume_table(tokens, idx, blocks) ==
    table_after(blocks, table_loop(tokens, idx + 1, <<>>, <<>>))

RECURSIVE consume_token(_, _, _, _)
RECURSIVE list_loop(_, _, _, _, _)
RECURSIVE item_loop(_, _, _, _, _)
RECURSIVE quote_loop(_, _, _)

\* _consume_list
consume_list(tokens, idx, blocks, ordered, list_depth) ==
    list_loop(tokens, idx + 1, blocks, ordered, list_depth)

\* blocks.extend(item_blocks); return idx + 1
extend_with(blocks, out) == Advance(out.idx + 1, blocks \o out.blocks)

\* _consume_list_item: the item's blocks, those of its nested lists after
\* it, are appended to the blocks of the enclosing list.
consume_list_item(tokens, idx, blocks, ordered, list_depth) ==
    extend_with(blocks, item_loop(tokens, idx + 1, <<>>, ordered, list_depth))

list_resume(tokens, out, ordered, list_depth) ==
    list_loop(tokens, out.idx, out.blocks, ordered, list_depth)

list_loop(tokens, idx, blocks, ordered, list_depth) ==
    IF idx > Len(tokens)
       \/ tokens[idx].type = (IF ordered THEN "ordered_list_close"
                              ELSE "bullet_list_close")
    THEN Advance(idx + 1, blocks)
    ELSE IF tokens[idx].type = "list_item_open"
    THEN list_resume(tokens,
                     consume_list_item(tokens, idx, blocks, ordered, list_depth),
                     ordered, list_depth)
    ELSE list_loop(tokens, idx + 1, blocks, ordered, list_depth)

item_resume(tokens, out, ordered, list_depth) ==
    item_loop(tokens, out.idx, out.blocks, ordered, list_depth)

\* The block of an item's paragraph: a todo for a checkbox, else a bullet
\* or ordered block.
item_block(content, ordered) ==
    FirstBlock(<<try_parse_todo(content),
                 [block_type |-> IF ordered THEN "ordered" ELSE "bullet",
                  body |-> [elements |-> parse_inline_markdown(content)]]>>)

item_loop(tokens, idx, item_blocks, ordered, list_depth) ==
    IF idx > Len(tokens) \/ tokens[idx].type = "list_item_close"
    THEN Advance(idx, item_blocks)
    ELSE IF tokens[idx].type = "paragraph_open"
    THEN item_loop(tokens, idx + 3,
                   Append(item_blocks,
                          item_block(tokens[idx + 1].content, ordered)),
                   ordered, list_depth)
    ELSE IF tokens[idx].type \in {"bullet_list_open", "ordered_list_open"}
    THEN item_resume(tokens,
                     consume_list(tokens, idx, item_blocks,
                                  tokens[idx].type = "ordered_list_open",
                                  list_depth + 1),
                     ordered, list_depth)
    ELSE item_loop(tokens, idx + 1, item_blocks, ordered, list_depth)

quote_resume(tokens, out) == quote_loop(tokens, out.idx, out.blocks)

quote_loop(tokens, idx, children) ==
    IF idx > Len(tokens) \/ tokens[idx].type = "blockquote_close"
    THEN Advance(idx, children)
    ELSE quote_resume(tokens, consume_token(tokens, idx, children, 0))

quote_container_of(blocks, out) ==
    Advance(out.idx + 1,
            Append(blocks, [block_type |-> "quote_container",
                            body |-> [none |-> TRUE],
                            children |-> out.blocks]))

consume_blockquote(tokens, idx, blocks) ==
    quote_container_of(blocks, quote_loop(tokens, idx + 1, <<>>))

consume_token(tokens, idx, blocks, list_depth) ==
    CASE tokens[idx].type = "heading_open" -> consume_heading(tokens, idx, blocks)
      [] tokens[idx].type = "paragraph_open" ->
           consume_paragraph(tokens, idx, blocks)
      [] tokens[idx].type = "bullet_list_open" ->
           consume_list(tokens, idx, blocks, FALSE, list_depth)
      [] tokens[idx].type = "ordered_list_open" ->
           consume_list(tokens, idx, blocks, TRUE, list_depth)
      [] tokens[idx].type \in {"fence", "code_block"} ->
           consume_code(tokens, idx, blocks)
      [] tokens[idx].type = "blockquote_open" ->
           consume_blockquote(tokens, idx, blocks)
      [] tokens[idx].type = "hr" -> consume_hr(tokens, idx, blocks)
      [] tokens[idx].type = "html_block" -> consume_html_block(tokens, idx, blocks)
      [] tokens[idx].type = "table_open" -> consume_table(tokens, idx, blocks)
      [] OTHER -> Advance(idx + 1, blocks)

RECURSIVE convert_loop(_, _, _)

convert_resume(tokens, out) == convert_loop(tokens, out.idx, out.blocks)

convert_loop(tokens, idx, blocks) ==
    IF idx > Len(tokens) THEN blocks
    ELSE convert_resume(tokens, consume_token(tokens, idx, blocks, 0))

\* MarkdownToLarkConverter.convert on the tokens of the document.
markdown_to_lark(tokens) == convert_loop(tokens, 1, <<>>)

\* The document's flat block list once the tree has been created under the
\* page block: every block with an id, its parent's id and the ids of its
\* children.  The id of a block is its position under the page.
NoParent == <<0>>

RECURSIVE FlattenFrom(_, _, _)
FlattenFrom(blocks, parent_id, i) ==
    IF i > Len(blocks) THEN <<>>
    ELSE LET block == blocks[i]
             id == Append(parent_id, i)
             children == IF "children" \in DOMAIN block THEN block.children
                         ELSE <<>>
         IN <<FlatBlock(id, block.block_type, parent_id,
                        [k \in 1..Len(children) |-> Append(id, k)], block.body)>>
            \o FlattenFrom(children, id, 1)
            \o FlattenFrom(blocks, parent_id, i + 1)

document_blocks(blocks) ==
    <<FlatBlock(<<>>, "page", NoParent,
                [k \in 1..Len(blocks) |-> <<k>>], [none |-> TRUE])>>
    \o FlattenFrom(blocks, <<>>, 1)

InitRoundTrip ==
    /\ EngineAtRest
    /\ \E doc \in Documents :
          conv = [op |-> "roundtrip", phase |-> "input", doc |-> doc,
                  blocks |-> <<>>, flat |-> <<>>,
                  out |-> [lines |-> <<>>, visits |-> <<>>]]

ParseDocument ==
    /\ conv.op = "roundtrip"
    /\ conv.phase = "input"
    /\ conv' = [conv EXCEPT !.phase = "parsed",
                            !.blocks = markdown_to_lark(TokensOf(conv.doc))]
    /\ UNCHANGED <<cwd, files, remote, stores, last, streak, probe, tbl, mat, sm, job, lim>>

StoreDocument ==
    /\ conv.op = "roundtrip"
    /\ conv.phase = "parsed"
    /\ conv' = [conv EXCEPT !.phase = "stored",
                            !.flat = document_blocks(conv.blocks)]
    /\ UNCHANGED <<cwd, files, remote, stores, last, streak, probe, tbl, mat, sm, job, lim>>

RenderDocument ==
    /\ conv.op = "roundtrip"
    /\ conv.phase = "stored"
    /\ conv' = [conv EXCEPT !.phase = "rendered",
                            !.out = lark_to_markdown(conv.flat)]
    /\ UNCHANGED <<cwd, files, remote, stores, last, streak, probe, tbl, mat, sm, job, lim>>

NextRoundTrip ==
    \/ ParseDocument
    \/ StoreDocument
    \/ RenderDocument

SpecRoundTrip == InitRoundTrip /\ [][NextRoundTrip]_vars

\* What a document says: its blocks in order, each with its kind, its
\* heading level or nesting depth, the number of quotes around it, and its
\* text.
Said(kind, n, quote, text) ==
    [kind |-> kind, n |-> n, quote |-> quote, text |-> text]

LanguageNames ==
    [py |-> "python", python |-> "python", sh |-> "bash", bash |-> "bash",
     plaintext |-> "plaintext", shell |-> "shell"]

LanguageOf(info) ==
    IF info \in DOMAIN LanguageNames THEN LanguageNames[info] ELSE info

RECURSIVE Meaning(_, _, _)
RECURSIVE ItemsMeaning(_, _, _, _)

ItemsMeaning(items, ordered, depth, quote) ==
    IF items = <<>> THEN <<>>
    ELSE <<Said(IF ordered THEN "ordered" ELSE "bullet", depth, quote,
                Head(items).text)>>
         \o Meaning(Head(items).sub, depth + 1, quote)
         \o ItemsMeaning(Tail(items), ordered, depth, quote)

Meaning(elements, depth, quote) ==
    IF elements = <<>> THEN <<>>
    ELSE
      LET e == Head(elements)
          said ==
            CASE e.kind = "heading" -> <<Said("heading", e.level, quote, e.text)>>
              [] e.kind = "paragraph" -> <<Said("paragraph", 0, quote, e.text)>>
              [] e.kind = "list" -> ItemsMeaning(e.items, e.ordered, depth, quote)
              [] e.kind = "fence" ->
                   <<Said("code", 0, quote, <<<<LanguageOf(e.info)>>, e.code>>)>>
              [] e.kind = "blockquote" -> Meaning(e.inner, 0, quote + 1)
              [] e.kind = "image" -> <<Said("image", 0, quote, <<e.alt, e.src>>)>>
              [] e.kind = "hr" -> <<Said("rule", 0, quote, <<>>)>>
              [] e.kind = "table" ->
                   [r \in 1..Len(e.rows) |-> Said("table_row", 0, quote, e.rows[r])]
      IN said \o Meaning(Tail(elements), depth, quote)

\* What rendered lines say, blank lines and table rules aside.
RECURSIVE ReadBack(_)
ReadBack(lines) ==
    IF lines = <<>> THEN <<>>
    ELSE
      LET line == Head(lines)
          rest == Tail(lines)
      IN IF line.marker = CodeFence
         THEN <<Said("code", 0, line.quote,
                     <<<<LanguageOf(line.md[1])>>, rest[1].md>>)>>
              \o ReadBack(SubSeq(rest, 3, Len(rest)))
         ELSE IF line.marker = "|---" \/ (line.marker = "" /\ line.md = <<>>)
         THEN ReadBack(rest)
         ELSE LET said ==
                    CASE line.marker = "" ->
                           Said("paragraph", 0, line.quote, line.md)
                      [] line.marker \in Range(HeadingMarker) ->
                           Said("heading",
                                CHOOSE n \in 1..Len(HeadingMarker) :
                                    HeadingMarker[n] = line.marker,
                                line.quote, line.md)
                      [] line.marker = "- " ->
                           Said("bullet", line.indent \div 2, line.quote, line.md)
                      [] line.marker = "1. " ->
                           Said("ordered", line.indent \div 2, line.quote, line.md)
                      [] line.marker = "![" -> Said("image", 0, line.quote, line.md)
                      [] line.marker = "---" -> Said("rule", 0, line.quote, <<>>)
                      [] line.marker = "|" -> Said("table_row", 0, line.quote, line.md)
                      [] OTHER -> Said(line.marker, 0, line.quote, line.md)
              IN <<said>> \o ReadBack(rest)

\* A document with a list item nested in another.
RECURSIVE HasNestedList(_)
HasNestedList(elements) ==
    \E i \in 1..Len(elements) :
       \/ elements[i].kind = "list"
          /\ \E k \in 1..Len(elements[i].items) : elements[i].items[k].sub # <<>>
       \/ elements[i].kind = "blockquote" /\ HasNestedList(elements[i].inner)

\* C16: parsing a Markdown document (headings, nested bullet and ordered
\* lists, a fenced code block with a language alias, a blockquote, a table,
\* an image, mixed inline styling) into a block tree and rendering that
\* tree back yields Markdown that says the same as the original: the same
\* blocks in the same order with the same nesting depth, text and inline
\* styles.
C16_RoundTripSaysTheSame ==
    (conv.op = "roundtrip" /\ conv.phase = "rendered") =>
        ReadBack(conv.out.lines) = Meaning(conv.doc, 0, 0)

\* Documents without a nested list come back saying the same.
FlatDocumentsRoundTrip ==
    (conv.op = "roundtrip" /\ conv.phase = "rendered"
        /\ ~HasNestedList(conv.doc)) =>
            ReadBack(conv.out.lines) = Meaning(conv.doc, 0, 0)

\* The items of a nested list all come back at depth 0.
NestedItemsComeBackFlat ==
    (conv.op = "roundtrip" /\ conv.phase = "rendered") =>
        \A i \in 1..Len(conv.out.lines) :
           conv.out.lines[i].marker \in {"- ", "1. "}
               => conv.out.lines[i].indent = 0

(***************************************************************************)
(* A push with the file system moving under it (SyncEngine.sync_to_lark).  *)
(* The push reads the file (line 183), converts and sends what it read     *)
(* (lines 210-234), and then hashes the file again for the state update    *)
(* (line 238).  The remote calls take time: an editor, another process or  *)
(* the user may write the file between the two reads.  job holds the push  *)
(* between its last remote call and its state update.                      *)
(***************************************************************************)
\* Lines 175-234: everything up to the last remote call.  A push that does
\* not get that far ends here, as in Push.
BeginPush(p, docArg, force, net) ==
    /\ job = Idle
    /\ \E out \in {sync_to_lark(p, docArg, force, net)} :
          /\ "documents.create" \in Range(out.calls) => FreeDocs(remote) # {}
          /\ RevisionsBounded(out.remote)
          /\ remote' = out.remote
          /\ IF out.res = "ok"
             THEN /\ job' = [op |-> "pushing", path |-> p,
                             markdown_content |-> files[OsPath(p)],
                             document_id |-> out.document_id,
                             store |-> out.store, had |-> out.had,
                             new_revision |->
                                 out.remote[out.document_id].revision_id,
                             calls |-> out.calls]
                  /\ last' = [NoLast EXCEPT !.op = "push_sent", !.path = p,
                                            !.doc = out.document_id]
                  /\ stores' = [cache_manager(stores, out.store) EXCEPT
                                   ![out.store] = ensure_loaded(@)]
             ELSE /\ job' = job
                  /\ last' = [NoLast EXCEPT
                         !.op = "push", !.res = out.res, !.path = p,
                         !.conflict = out.conflict, !.calls = out.calls,
                         !.fetched = out.fetched, !.doc = out.document_id]
                  /\ stores' = out.stores
    /\ streak' = NoStreak
    /\ UNCHANGED <<cwd, files, probe, tbl, mat, sm, conv, lim>>

\* Lines 236-274: the hash of the file as it is now, the state update and
\* the success result.  A file deleted meanwhile makes compute_file_hash
\* raise FileNotFoundError.
FinishPush ==
    /\ job.op = "pushing"
    /\ IF files[OsPath(job.path)] = Missing
       THEN /\ stores' = stores
            /\ last' = [NoLast EXCEPT !.op = "push", !.res = "raise",
                            !.path = job.path, !.doc = job.document_id,
                            !.calls = job.calls]
       ELSE /\ stores' = push_update_state(
                             stores, job.store,
                             IF job.had
                             THEN get_mapping(stores[job.store], job.path)
                             ELSE 0,
                             job.path, job.document_id, job.new_revision)
            /\ last' = [NoLast EXCEPT !.op = "push", !.res = "ok",
                            !.path = job.path, !.doc = job.document_id,
                            !.calls = job.calls]
    /\ job' = Idle
    /\ streak' = NoStreak
    /\ UNCHANGED <<cwd, files, remote, probe, tbl, mat, sm, conv, lim>>

NextPushRace ==
    \/ \E p \in PushPaths, docArg \in Docs \cup {NoDoc}, force \in BOOLEAN,
          net \in PushNets : BeginPush(p, docArg, force, net)
    \/ FinishPush
    \/ \E abs \in EditPaths, c \in EditContents \cup {Missing} : LocalEdit(abs, c)
    \/ \E d \in Docs, body \in Bodies : RemoteEdit(d, body)
    \/ \E pArg \in PushPaths \cup {NoPath}, failDocs \in SUBSET Docs :
          Status(pArg, failDocs)

SpecPushRace == Init /\ [][NextPushRace]_vars

\* C29: the hash a successful push records is the hash of the content it
\* read, converted and sent, whatever is written to the file while the
\* push is under way (so that such a write differs from the stored hash and
\* is reported as a local change by the next status query).
C29_RecordedHashIsOfSentContent ==
    [][(job.op = "pushing" /\ job'.op = "idle" /\ last'.res = "ok") =>
          Recorded(stores', job.document_id,
                   compute_content_hash(job.markdown_content),
                   job.new_revision)]_vars

(***************************************************************************)
(* A push over an existing document (sync_to_lark, lines 216-223):         *)
(* _clear_document_blocks, then _create_blocks_with_nesting.  The remote   *)
(* document holds a tree of blocks under its page block, left by earlier   *)
(* pushes or written by its users; the page block's id is the document id  *)
(* (RootId), the blocks already there are numbered -1, -2, ... in listing  *)
(* order, the blocks the push creates 1, 2, ...                            *)
(***************************************************************************)
MaxOld == 3

\* The blocks found in the remote document.
OldBlocks == {TextBlock("a"), QuoteBlock(<<>>)}

\* The block lists pushed over it.
NewBlockLists ==
    {<<>>,
     <<TextBlock("b")>>,
     <<TextBlock("a"), QuoteBlock(<<TextBlock("b")>>)>>,
     <<QuoteBlock(<<TextBlock("a"), TextBlock("b")>>)>>}

ReplaceFails == {"none", "list", "delete"}

\* The blocks under parent as the list endpoint returns them, depth first:
\* [items, used], used the number of ids given out so far.
RECURSIVE ListUnder(_, _, _)
ListUnder(blocks, parent, used) ==
    IF blocks = <<>> THEN [items |-> <<>>, used |-> used]
    ELSE LET id == 0 - (used + 1)
             inner == ListUnder(children_of(Head(blocks)), id, used + 1)
             rest == ListUnder(Tail(blocks), parent, inner.used)
         IN [items |-> <<[block_id |-> id, parent_id |-> parent]>>
                          \o inner.items \o rest.items,
             used |-> rest.used]

\* BlocksClient.list_all_blocks: the page block, which has no parent, then
\* every block of the document.
list_all_blocks(document_id, tree) ==
    <<[block_id |-> document_id]>> \o ListUnder(tree, document_id, 0).items

\* A clearing that counts every listed block below the page block, nested
\* ones included.
clear_counting_every_block(raw_blocks, document_id, fail) ==
    LET child_count ==
            Cardinality({i \in DOMAIN raw_blocks :
                            raw_blocks[i].block_id # document_id})
    IN IF fail = "list"
       THEN [ok |-> FALSE, log |-> <<[name |-> "list_all_blocks"]>>]
       ELSE IF child_count > 0
       THEN [ok |-> fail # "delete",
             log |-> <<[name |-> "list_all_blocks"],
                       [name |-> "batch_delete", block_id |-> document_id,
                        start_index |-> 0, end_index |-> child_count]>>]
       ELSE [ok |-> TRUE, log |-> <<[name |-> "list_all_blocks"]>>]

\* SyncEngine._clear_document_blocks on the listing raw_blocks: [ok, log],
\* ok = FALSE when a call raised.
clear_document_blocks_calls(raw_blocks, document_id, fail) ==
    LET child_count ==
            Cardinality({i \in DOMAIN raw_blocks :
                            /\ raw_blocks[i].block_id # document_id
                            /\ "parent_id" \in DOMAIN raw_blocks[i]
                            /\ raw_blocks[i].parent_id = document_id})
    IN IF fail = "list"
       THEN [ok |-> FALSE, log |-> <<[name |-> "list_all_blocks"]>>]
       ELSE IF child_count > 0
       THEN [ok |-> fail # "delete",
             log |-> <<[name |-> "list_all_blocks"],
                       [name |-> "batch_delete", block_id |-> document_id,
                        start_index |-> 0, end_index |-> child_count]>>]
       ELSE [ok |-> TRUE, log |-> <<[name |-> "list_all_blocks"]>>]

\* The remote store's batch_delete of the children [start, end) of a block:
\* [ok, children]; a range that reaches past the last child is refused.
batch_delete(children, start_index, end_index) ==
    IF end_index > Len(children) \/ start_index >= end_index
    THEN [ok |-> FALSE, children |-> children]
    ELSE [ok |-> TRUE,
          children |-> SubSeq(children, 1, start_index)
                          \o SubSeq(children, end_index + 1, Len(children))]

\* Lines 216-223: [res, log, left], left the children of the page block
\* that were there before the push and still are.
push_over(tree, lark_blocks, fail) ==
    LET cleared == clear_document_blocks_calls(
                       list_all_blocks(RootId, tree), RootId, fail)
        deletes == SelectSeq(cleared.log, LAMBDA c : c.name = "batch_delete")
        deleted == IF deletes = <<>> \/ fail = "delete"
                   THEN [ok |-> TRUE, children |-> tree]
                   ELSE batch_delete(tree, deletes[1].start_index,
                                     deletes[1].end_index)
    IN IF ~cleared.ok \/ ~deleted.ok
       THEN [res |-> "raise", log |-> cleared.log, left |-> deleted.children]
       ELSE IF lark_blocks = <<>>
       THEN [res |-> "success", log |-> cleared.log,
             left |-> deleted.children]
       ELSE [res |-> "success",
             log |-> create_blocks_with_nesting_calls(
                         [log |-> cleared.log, next |-> 1], RootId,
                         lark_blocks, 1, <<>>, TableNetOk).log,
             left |-> deleted.children]

InitReplace ==
    /\ cwd = HomeDir
    /\ files = [abs \in AbsPaths |-> "x\n"]
    /\ remote = [d \in Docs |-> [exists |-> FALSE, revision_id |-> 0, body |-> "empty"]]
    /\ stores = [sid \in StoreIds |->
                    [root |-> IF sid = "global" THEN NoRoot ELSE ProjectRoot,
                     exists |-> FALSE, cached |-> sid = "global",
                     loaded |-> FALSE, mem |-> <<>>, disk |-> <<>>]]
    /\ last = NoLast
    /\ streak = NoStreak
    /\ probe = NoProbe
    /\ sm = Idle
    /\ conv = Idle
    /\ job = Idle
    /\ lim = Idle
    /\ mat = [op |-> "remote", tree |-> <<>>, blocks |-> <<>>,
              fail |-> "none", res |-> "none", log |-> <<>>, left |-> <<>>]
    /\ tbl = NoTable

\* The remote document gains a block.
GrowRemote(path, block) ==
    /\ mat.op = "remote"
    /\ Size(mat.tree) < MaxOld
    /\ mat' = [mat EXCEPT !.tree = AppendAt(@, path, block)]
    /\ UNCHANGED <<cwd, files, remote, stores, last, streak, probe, tbl, sm,
                   conv, job, lim>>

PushOver(lark_blocks, fail) ==
    /\ mat.op = "remote"
    /\ \E out \in {push_over(mat.tree, lark_blocks, fail)} :
          mat' = [mat EXCEPT !.op = "pushed", !.blocks = lark_blocks,
                             !.fail = fail, !.res = out.res,
                             !.log = out.log, !.left = out.left]
    /\ UNCHANGED <<cwd, files, remote, stores, last, streak, probe, tbl, sm,
                   conv, job, lim>>

NextReplace ==
    \/ \E path \in Paths(mat.tree), block \in OldBlocks : GrowRemote(path, block)
    \/ \E lark_blocks \in NewBlockLists, fail \in ReplaceFails :
          PushOver(lark_blocks, fail)

SpecReplace == InitReplace /\ [][NextReplace]_vars

\* The positions in the log of the calls of one name.
CallsAt(log, name) == {i \in DOMAIN log : log[i].name = name}

\* C23: a push over an existing document whose listing succeeds issues no
\* batch_delete when the page block has no children and otherwise exactly
\* one, on the page block, over [0, n) with n the number of the page
\* block's children; the delete comes before every creation call; and after
\* a successful push the page block's children are exactly the blocks the
\* push created, which are the local blocks.
C23_ClearThenMaterialize ==
    (mat.op = "pushed" /\ mat.fail # "list") =>
        LET n == Len(mat.tree)
            deletes == CallsAt(mat.log, "batch_delete")
            creates == CallsAt(mat.log, "create_children")
        IN /\ n = 0 => deletes = {}
           /\ n > 0 =>
                 /\ Cardinality(deletes) = 1
                 /\ \A i \in deletes :
                       /\ mat.log[i] =
                             [name |-> "batch_delete", block_id |-> RootId,
                              start_index |-> 0, end_index |-> n]
                       /\ \A j \in creates : i < j
           /\ mat.res = "success" =>
                 /\ mat.left = <<>>
                 /\ SameBlocks(mat.blocks, mat.log, RootId)

\* A push over a document that held two blocks under its page block, one
\* of them a container with a block inside, has deleted [0, 2) and created
\* a text and a container with its child.
C23_Witness ==
    /\ mat.op = "pushed"
    /\ mat.res = "success"
    /\ mat.tree = <<QuoteBlock(<<TextBlock("a")>>), TextBlock("a")>>
    /\ mat.blocks = <<TextBlock("a"), QuoteBlock(<<TextBlock("b")>>)>>
    /\ Len(mat.log) = 5
    /\ mat.log[2].name = "batch_delete"
    /\ mat.log[2].end_index = 2

(***************************************************************************)
(* The write rate limiter of one document (_DocumentRateLimiter) under     *)
(* concurrent writers.  Time is the monotonic clock in ticks,              *)
(* TicksPerSecond of them to the second; any number of steps of the event  *)
(* loop fit between two ticks.  lim.granted is the history of the moments  *)
(* acquire returned, newest last, as far back as a window can reach.       *)
(***************************************************************************)
MAX_OPS_PER_SECOND == 3
TicksPerSecond == 4
MaxClock == 6

Writers == {"w1", "w2", "w3", "w4"}

InitLimiter ==
    /\ cwd = HomeDir
    /\ files = [abs \in AbsPaths |-> "x\n"]
    /\ remote = [d \in Docs |-> [exists |-> FALSE, revision_id |-> 0, body |-> "empty"]]
    /\ stores = [sid \in StoreIds |->
                    [root |-> IF sid = "global" THEN NoRoot ELSE ProjectRoot,
                     exists |-> FALSE, cached |-> sid = "global",
                     loaded |-> FALSE, mem |-> <<>>, disk |-> <<>>]]
    /\ last = NoLast
    /\ streak = NoStreak
    /\ probe = NoProbe
    /\ tbl = NoTable
    /\ mat = Idle
    /\ sm = Idle
    /\ conv = Idle
    /\ job = Idle
    /\ lim = [clock |-> 0,
              semaphore |-> MAX_OPS_PER_SECOND,
              timestamps |-> <<>>,
              pc |-> [w \in Writers |-> "out"],
              wake |-> [w \in Writers |-> 0],
              granted |-> <<>>]

\* The latest MAX_OPS_PER_SECOND + 1 grants, with one more at time now.
Granted(history, now) ==
    LET all == Append(history, now)
    IN IF Len(all) > MAX_OPS_PER_SECOND + 1 THEN Tail(all) ELSE all

\* _RateLimitContext.__aenter__, acquire up to its await of the sleep or,
\* with nothing to wait for, to its return (lines 54-65).
Enter(w) ==
    /\ lim # Idle
    /\ lim.pc[w] = "out"
    /\ lim.semaphore > 0
    /\ LET now == lim.clock
           kept == SelectSeq(lim.timestamps,
                             LAMBDA t : now - t < TicksPerSecond)
           sleep_for == TicksPerSecond - (now - kept[1])
       IN IF Len(kept) >= MAX_OPS_PER_SECOND /\ sleep_for > 0
          THEN lim' = [lim EXCEPT !.semaphore = @ - 1,
                                  !.timestamps = kept,
                                  !.pc[w] = "sleeping",
                                  !.wake[w] = now + sleep_for]
          ELSE lim' = [lim EXCEPT !.semaphore = @ - 1,
                                  !.timestamps = Append(kept, now),
                                  !.pc[w] = "in",
                                  !.granted = Granted(@, now)]
    /\ UNCHANGED <<cwd, files, remote, stores, last, streak, probe, tbl, mat,
                   sm, conv, job>>

\* The sleep is over: line 65 appends the time it is now and acquire
\* returns.
Wake(w) ==
    /\ lim # Idle
    /\ lim.pc[w] = "sleeping"
    /\ lim.clock >= lim.wake[w]
    /\ lim' = [lim EXCEPT !.timestamps = Append(@, lim.clock),
                          !.pc[w] = "in",
                          !.wake[w] = 0,
                          !.granted = Granted(@, lim.clock)]
    /\ UNCHANGED <<cwd, files, remote, stores, last, streak, probe, tbl, mat,
                   sm, conv, job>>

\* _RateLimitContext.__aexit__: release (lines 67-68).
Release(w) ==
    /\ lim # Idle
    /\ lim.pc[w] = "in"
    /\ lim' = [lim EXCEPT !.semaphore = @ + 1, !.pc[w] = "out"]
    /\ UNCHANGED <<cwd, files, remote, stores, last, streak, probe, tbl, mat,
                   sm, conv, job>>

\* The monotonic clock moves on.
Tick ==
    /\ lim # Idle
    /\ lim.clock < MaxClock
    /\ lim' = [lim EXCEPT !.clock = @ + 1]
    /\ UNCHANGED <<cwd, files, remote, stores, last, streak, probe, tbl, mat,
                   sm, conv, job>>

NextLimiter ==
    \/ \E w \in Writers : Enter(w)
    \/ \E w \in Writers : Wake(w)
    \/ \E w \in Writers : Release(w)
    \/ Tick

SpecLimiter == InitLimiter /\ [][NextLimiter]_vars

\* C24: whatever the interleaving of the writers of one document, no
\* window of one second holds more than MAX_OPS_PER_SECOND grants: the
\* grant that follows MAX_OPS_PER_SECOND others comes a full second after
\* the first of them.
C24_AtMostThreeGrantsPerSecond ==
    lim # Idle =>
        \A i \in DOMAIN lim.granted :
            i + MAX_OPS_PER_SECOND \in DOMAIN lim.granted =>
                lim.granted[i + MAX_OPS_PER_SECOND] - lim.granted[i]
                    >= TicksPerSecond

\* What the limiter does keep: it never lets more than MAX_OPS_PER_SECOND
\* writers into the context at once.
AtMostThreeWritersInside ==
    lim # Idle =>
        /\ lim.semaphore >= 0
        /\ Cardinality({w \in Writers : lim.pc[w] # "out"})
              = MAX_OPS_PER_SECOND - lim.semaphore

====
